---- MODULE Spec2Model ----
(***************************************************************************)
(* Delayed-invocation core of the hook catalog: createDelayedCallback      *)
(* (debounce and throttle modes) and the standalone useThrottleCallback.   *)
(*                                                                         *)
(* Time is discrete (milliseconds).  The host's timer table is the         *)
(* sequence `timers`, in creation order; a timer fires at its due time     *)
(* (Tick does not move the clock past a due timer), and among timers due   *)
(* at the same instant the one created first fires first.  A call made by  *)
(* the user at the very instant a timer is due may run before or after it. *)
(*                                                                         *)
(* The wrapped action is the environment.  Each time it is called it       *)
(* either returns, throws, or calls back into the same invoker (invoke,    *)
(* flush, cancel); what it does is given by a script chosen with \E by the  *)
(* step that may call it.  A call made from inside the action meets an     *)
(* action that returns.  `environment` fixes which scripts the action may  *)
(* follow: Spec is the invoker around an action that always returns,       *)
(* SpecEnv the invoker around an action that may throw or call back.       *)
(***************************************************************************)
EXTENDS Integers, Sequences, FiniteSets, TLC

\* ---------------------------------------------------------------- bounds
Delay == 3
MaxCalls == 3
MaxEnvCalls == 2
Horizon == 5

\* ------------------------------------------------------------- constants
Null == 0
Infinity == 1000000
MaxWaitShort == Delay - 1
MaxWaitLong == Delay + 1
StartTime == 2 * Delay
MaxTime == StartTime + Horizon

VARIABLES
    config,       \* DelayedCallbackConfig plus which hook implements it
    now,          \* Date.now()
    references,   \* DelayedReferences: the five mutable refs of one instance
    timers,       \* host timer table: live timers in creation order
    calls,        \* history: calls[k] is the invoke call that recorded args k
    log,          \* history: every call of the wrapped action
    control,      \* history: whether cancel() and flush() were called
    lastEvent,    \* history: the operation of the last step
    mounted,      \* the owning component is mounted
    environment,  \* what the wrapped action may do, and how many calls are explored
    options,      \* the options argument given to useDebounceCallback / useThrottleCallback
    other,        \* a second invoker instance: its refs and the timers it scheduled
    useDebounce,  \* useDebounce(value, delay): props, debouncedValue, effect timer
    useTimeout,   \* useTimeout(callback, delay): delay prop, effect timer, callback calls
    useInterval,  \* useInterval(callback, delay): delay prop, effect timer, callback calls
    useCounter,   \* useCounter(initialValue, options): arguments and count
    render,       \* re-renders of the invoker's component: callback prop and callbackReference
    useRequest,   \* useRequest(service, options): runs, dedup table, service calls
    useAsync,     \* useAsync(asyncFn, deps): state, pending promises
    useStateWithHistory  \* useStateWithHistory(initial, capacity): value, history, pointer

\* The hooks other than the invoker under study; each is exercised by its own
\* specification and is not rendered (Unused) in the others.
rest == <<render, useRequest, useAsync, useStateWithHistory>>

hooks == <<options, other, useDebounce, useTimeout, useInterval, useCounter, rest>>

vars == <<config, now, references, timers, calls, log, control, lastEvent, mounted,
          environment, options, other, useDebounce, useTimeout, useInterval, useCounter,
          render, useRequest, useAsync, useStateWithHistory>>

Unused == [hook |-> "none"]

RestUnused ==
    /\ render = Unused
    /\ useRequest = Unused
    /\ useAsync = Unused
    /\ useStateWithHistory = Unused

HooksUnused ==
    /\ RestUnused
    /\ options = Unused
    /\ other = Unused
    /\ useDebounce = Unused
    /\ useTimeout = Unused
    /\ useInterval = Unused
    /\ useCounter = Unused

\* ------------------------------------------------------------ configuration
\* useDebounceCallback always passes trailing: true and a maxWait (Infinity
\* when absent); createDelayedCallback itself accepts any trailing flag.
DebounceConfigs ==
    [impl : {"createDelayedCallback"}, mode : {"debounce"}, delay : {Delay},
     leading : BOOLEAN, trailing : BOOLEAN,
     maxWait : {Infinity, MaxWaitShort, MaxWaitLong}]

ThrottleConfigs ==
    [impl : {"createDelayedCallback", "useThrottleCallback"}, mode : {"throttle"},
     delay : {Delay}, leading : BOOLEAN, trailing : BOOLEAN, maxWait : {Infinity}]

Configs == DebounceConfigs \cup ThrottleConfigs

\* ------------------------------------------------------------ action scripts
Behaviours == {"throw", "invoke", "flush", "cancel"}

Returns == {<<>>}

Scripts == Returns \cup {<<b>> : b \in Behaviours}

\* ------------------------------------------------------------------ world
\* The state one handler works on: the refs, the timer table and the
\* histories, plus whether an exception is propagating.
World ==
    [timeoutReference |-> references.timeoutReference,
     maxWaitTimeoutReference |-> references.maxWaitTimeoutReference,
     lastCallTimeReference |-> references.lastCallTimeReference,
     lastInvokeTimeReference |-> references.lastInvokeTimeReference,
     pendingArgumentsReference |-> references.pendingArgumentsReference,
     timers |-> timers, calls |-> calls, log |-> log, control |-> control,
     threw |-> FALSE, reentered |-> FALSE]

RefsOf(w) ==
    [timeoutReference |-> w.timeoutReference,
     maxWaitTimeoutReference |-> w.maxWaitTimeoutReference,
     lastCallTimeReference |-> w.lastCallTimeReference,
     lastInvokeTimeReference |-> w.lastInvokeTimeReference,
     pendingArgumentsReference |-> w.pendingArgumentsReference]

\* ------------------------------------------------------------ host timers
LiveHandles(w) == {w.timers[i].handle : i \in DOMAIN w.timers}

UsedHandles(w) ==
    LiveHandles(w) \cup {w.timeoutReference, w.maxWaitTimeoutReference}

\* setTimeout returns a handle that names no other timer.
NewHandle(w) ==
    CHOOSE h \in 1..(Cardinality(UsedHandles(w)) + 1) :
        /\ h \notin UsedHandles(w)
        /\ \A g \in 1..(h - 1) : g \in UsedHandles(w)

SetTimeout(w, kind, ms) ==
    [w EXCEPT !.timers =
        Append(@, [handle |-> NewHandle(w), due |-> now + ms, kind |-> kind])]

\* Mutant: clearTimeout cancels every timer of the host.
ClearTimeoutClearsAll(w, h) ==
    [w EXCEPT !.timers = <<>>]

ClearTimeout(w, h) ==
    [w EXCEPT !.timers = SelectSeq(@, LAMBDA x : x.handle # h)]

\* ------------------------------------------------- createDelayedCallback
RECURSIVE CallAction(_, _, _, _)
RECURSIVE InvokeFunction(_, _, _)
RECURSIVE Cancel(_)
RECURSIVE Flush(_, _)
RECURSIVE HandleDebounce(_, _)
RECURSIVE HandleThrottle(_, _)
RECURSIVE DelayedCallback(_, _)
RECURSIVE ThrottleInvokeFunction(_, _, _, _)
RECURSIVE ThrottleCancel(_)
RECURSIVE ThrottleFlush(_, _)
RECURSIVE ThrottledCallback(_, _)

\* callbackReference.current(...args): the action runs and does what the
\* head of the script says; the tail is for the calls nested inside it.
CallAction(w, args, via, script) ==
    LET w1 == [w EXCEPT !.log = Append(@, [args |-> args, at |-> now, via |-> via])]
        hook == config.impl = "useThrottleCallback"
    IN  IF script = <<>> THEN w1
        ELSE CASE Head(script) = "throw" -> [w1 EXCEPT !.threw = TRUE]
               [] Head(script) = "invoke" ->
                    IF hook THEN ThrottledCallback([w1 EXCEPT !.reentered = TRUE], Tail(script))
                    ELSE DelayedCallback([w1 EXCEPT !.reentered = TRUE], Tail(script))
               [] Head(script) = "flush" ->
                    IF hook THEN ThrottleFlush(w1, Tail(script))
                    ELSE Flush(w1, Tail(script))
               [] OTHER ->
                    IF hook THEN ThrottleCancel(w1) ELSE Cancel(w1)

InvokeFunction(w, via, script) ==
    LET args == w.pendingArgumentsReference
    IN  IF args = Null THEN w
        ELSE LET w1 == CallAction(w, args, via, script)
             IN  IF w1.threw THEN w1
                 ELSE [w1 EXCEPT !.lastInvokeTimeReference = now,
                                 !.pendingArgumentsReference = Null]

\* Mutant: cancel clears the timers but keeps the pending args.
CancelKeepsPending(w) ==
    LET w1 == IF w.timeoutReference # Null
              THEN [ClearTimeout(w, w.timeoutReference) EXCEPT !.timeoutReference = Null]
              ELSE w
        w2 == IF w1.maxWaitTimeoutReference # Null
              THEN [ClearTimeout(w1, w1.maxWaitTimeoutReference)
                        EXCEPT !.maxWaitTimeoutReference = Null]
              ELSE w1
    IN  [w2 EXCEPT !.lastCallTimeReference = 0, !.control.cancel = "quiet"]

\* Mutant: cancel also resets the time of the last invocation.
CancelResetsInvokeTime(w) ==
    LET w1 == IF w.timeoutReference # Null
              THEN [ClearTimeout(w, w.timeoutReference) EXCEPT !.timeoutReference = Null]
              ELSE w
        w2 == IF w1.maxWaitTimeoutReference # Null
              THEN [ClearTimeout(w1, w1.maxWaitTimeoutReference)
                        EXCEPT !.maxWaitTimeoutReference = Null]
              ELSE w1
    IN  [w2 EXCEPT !.pendingArgumentsReference = Null, !.lastCallTimeReference = 0,
                   !.lastInvokeTimeReference = 0, !.control.cancel = "quiet"]

Cancel(w) ==
    LET w1 == IF w.timeoutReference # Null
              THEN [ClearTimeout(w, w.timeoutReference) EXCEPT !.timeoutReference = Null]
              ELSE w
        w2 == IF w1.maxWaitTimeoutReference # Null
              THEN [ClearTimeout(w1, w1.maxWaitTimeoutReference)
                        EXCEPT !.maxWaitTimeoutReference = Null]
              ELSE w1
    IN  [w2 EXCEPT !.pendingArgumentsReference = Null, !.lastCallTimeReference = 0,
                   !.control.cancel = "quiet"]

\* Mutant: flush clears the timers before it looks at pendingArgs.
FlushWithoutEarlyReturn(w, script) ==
    LET args == w.pendingArgumentsReference
        shouldSkipInvoke == config.mode = "debounce" /\ config.leading
        w1 == IF w.timeoutReference # Null
              THEN [ClearTimeout(w, w.timeoutReference) EXCEPT !.timeoutReference = Null]
              ELSE w
        w2 == IF w1.maxWaitTimeoutReference # Null
              THEN [ClearTimeout(w1, w1.maxWaitTimeoutReference)
                        EXCEPT !.maxWaitTimeoutReference = Null]
              ELSE w1
        w3 == [w2 EXCEPT !.pendingArgumentsReference = Null, !.lastCallTimeReference = 0,
                         !.control.flushed = TRUE]
    IN  IF args = Null \/ shouldSkipInvoke THEN w3
        ELSE LET w4 == CallAction(w3, args, "flush", script)
             IN  IF w4.threw THEN w4
                 ELSE [w4 EXCEPT !.lastInvokeTimeReference = now]

Flush(w, script) ==
    LET args == w.pendingArgumentsReference
        shouldSkipInvoke == config.mode = "debounce" /\ config.leading
        w1 == IF w.timeoutReference # Null
              THEN [ClearTimeout(w, w.timeoutReference) EXCEPT !.timeoutReference = Null]
              ELSE w
        w2 == IF w1.maxWaitTimeoutReference # Null
              THEN [ClearTimeout(w1, w1.maxWaitTimeoutReference)
                        EXCEPT !.maxWaitTimeoutReference = Null]
              ELSE w1
        w3 == [w2 EXCEPT !.pendingArgumentsReference = Null, !.lastCallTimeReference = 0,
                         !.control.flushed = TRUE]
    IN  IF args = Null THEN [w EXCEPT !.control.flushed = TRUE]
        ELSE IF shouldSkipInvoke THEN w3
        ELSE LET w4 == CallAction(w3, args, "flush", script)
             IN  IF w4.threw THEN w4
                 ELSE [w4 EXCEPT !.lastInvokeTimeReference = now]

\* Mutant: the max-wait timer is never started.
NeverSetMaxWait(w) == FALSE

ShouldSetMaxWait(w) ==
    /\ config.maxWait # 0
    /\ config.maxWait < Infinity
    /\ w.maxWaitTimeoutReference = Null

\* Mutant: the previous trailing timer is not cleared before a new one is set.
HandleDebounceKeepsOldTimer(w, script) ==
    LET isLeadingInvoke == config.leading /\ w.timeoutReference = Null
        w2 == IF isLeadingInvoke THEN InvokeFunction(w, "leading", script) ELSE w
        w3 == IF isLeadingInvoke THEN [w2 EXCEPT !.pendingArgumentsReference = Null] ELSE w2
        w4 == [SetTimeout(w3, "debounceTrailing", config.delay)
                  EXCEPT !.timeoutReference = NewHandle(w3)]
        w5 == IF ShouldSetMaxWait(w4)
              THEN [SetTimeout(w4, "maxWait", config.maxWait)
                       EXCEPT !.maxWaitTimeoutReference = NewHandle(w4)]
              ELSE w4
    IN  IF w2.threw THEN w2 ELSE w5

\* Mutant: the leading edge fires on every call, timer live or not.
HandleDebounceAlwaysLeading(w, script) ==
    LET isLeadingInvoke == config.leading
        w1 == IF w.timeoutReference # Null THEN ClearTimeout(w, w.timeoutReference) ELSE w
        w2 == IF isLeadingInvoke THEN InvokeFunction(w1, "leading", script) ELSE w1
        w3 == IF isLeadingInvoke THEN [w2 EXCEPT !.pendingArgumentsReference = Null] ELSE w2
        w4 == [SetTimeout(w3, "debounceTrailing", config.delay)
                  EXCEPT !.timeoutReference = NewHandle(w3)]
        w5 == IF ShouldSetMaxWait(w4)
              THEN [SetTimeout(w4, "maxWait", config.maxWait)
                       EXCEPT !.maxWaitTimeoutReference = NewHandle(w4)]
              ELSE w4
    IN  IF w2.threw THEN w2 ELSE w5

HandleDebounce(w, script) ==
    LET isLeadingInvoke == config.leading /\ w.timeoutReference = Null
        w1 == IF w.timeoutReference # Null THEN ClearTimeout(w, w.timeoutReference) ELSE w
        w2 == IF isLeadingInvoke THEN InvokeFunction(w1, "leading", script) ELSE w1
        w3 == IF isLeadingInvoke THEN [w2 EXCEPT !.pendingArgumentsReference = Null] ELSE w2
        w4 == [SetTimeout(w3, "debounceTrailing", config.delay)
                  EXCEPT !.timeoutReference = NewHandle(w3)]
        w5 == IF ShouldSetMaxWait(w4)
              THEN [SetTimeout(w4, "maxWait", config.maxWait)
                       EXCEPT !.maxWaitTimeoutReference = NewHandle(w4)]
              ELSE w4
    IN  IF w2.threw THEN w2 ELSE w5

HandleThrottle(w, script) ==
    LET timeSinceLastRun == now - w.lastInvokeTimeReference
        w1 == IF w.timeoutReference # Null THEN ClearTimeout(w, w.timeoutReference) ELSE w
        remainingDelay == config.delay - timeSinceLastRun
    IN  IF timeSinceLastRun >= config.delay
        THEN IF config.leading THEN InvokeFunction(w, "leading", script)
             ELSE IF config.trailing
                  THEN [SetTimeout(w, "throttleTrailing", config.delay)
                           EXCEPT !.timeoutReference = NewHandle(w)]
                  ELSE w
        ELSE IF config.trailing
             THEN [SetTimeout(w1, "throttleTrailing", remainingDelay)
                      EXCEPT !.timeoutReference = NewHandle(w1)]
             ELSE w

\* Mutant: a call made while args are pending does not overwrite them.
DelayedCallbackKeepsFirstPending(w, script) ==
    LET args == Len(w.calls) + 1
        w1 == [w EXCEPT !.calls = Append(@, [at |-> now, reentrant |-> w.reentered]),
                        !.control.cancel = IF @ = "quiet" THEN "resumed" ELSE @,
                        !.pendingArgumentsReference = IF @ = Null THEN args ELSE @,
                        !.lastCallTimeReference = now]
    IN  IF config.mode = "debounce" THEN HandleDebounce(w1, script)
        ELSE HandleThrottle(w1, script)

DelayedCallback(w, script) ==
    LET args == Len(w.calls) + 1
        w1 == [w EXCEPT !.calls = Append(@, [at |-> now, reentrant |-> w.reentered]),
                        !.control.cancel = IF @ = "quiet" THEN "resumed" ELSE @,
                        !.pendingArgumentsReference = args,
                        !.lastCallTimeReference = now]
    IN  IF config.mode = "debounce" THEN HandleDebounce(w1, script)
        ELSE HandleThrottle(w1, script)

\* ---------------------------------------------------- useThrottleCallback
\* lastRunReference is kept in the lastInvokeTimeReference field.
ThrottleInvokeFunction(w, args, via, script) ==
    LET w1 == CallAction(w, args, via, script)
    IN  IF w1.threw THEN w1
        ELSE [w1 EXCEPT !.lastInvokeTimeReference = now,
                        !.pendingArgumentsReference = Null]

ThrottleCancel(w) ==
    LET w1 == IF w.timeoutReference # Null
              THEN [ClearTimeout(w, w.timeoutReference) EXCEPT !.timeoutReference = Null]
              ELSE w
    IN  [w1 EXCEPT !.pendingArgumentsReference = Null, !.control.cancel = "quiet"]

ThrottleFlush(w, script) ==
    LET args == w.pendingArgumentsReference
        w1 == [w EXCEPT !.control.flushed = TRUE]
    IN  IF args = Null THEN w1
        ELSE ThrottleInvokeFunction(
                 [ThrottleCancel(w1) EXCEPT !.control.cancel = w.control.cancel],
                 args, "flush", script)

ThrottledCallback(w, script) ==
    LET args == Len(w.calls) + 1
        timeSinceLastRun == now - w.lastInvokeTimeReference
        w1 == [w EXCEPT !.calls = Append(@, [at |-> now, reentrant |-> w.reentered]),
                        !.control.cancel = IF @ = "quiet" THEN "resumed" ELSE @,
                        !.pendingArgumentsReference = args]
        w2 == IF w1.timeoutReference # Null THEN ClearTimeout(w1, w1.timeoutReference) ELSE w1
    IN  IF timeSinceLastRun >= config.delay
        THEN IF config.leading THEN ThrottleInvokeFunction(w1, args, "leading", script)
             ELSE IF config.trailing
                  THEN [SetTimeout(w1, "throttleTrailing", config.delay)
                           EXCEPT !.timeoutReference = NewHandle(w1)]
                  ELSE w1
        ELSE IF config.trailing
             THEN [SetTimeout(w2, "throttleTrailing", config.delay - timeSinceLastRun)
                      EXCEPT !.timeoutReference = NewHandle(w2)]
             ELSE w1

\* --------------------------------------------------------- timer callbacks
\* The closures handed to setTimeout, by kind.
DebounceTrailingCallback(w, script) ==
    LET w1 == [w EXCEPT !.timeoutReference = Null]
    IN  IF ~config.leading \/ w1.pendingArgumentsReference # Null
        THEN InvokeFunction(w1, "trailing", script)
        ELSE w1

MaxWaitCallback(w, script) ==
    InvokeFunction([w EXCEPT !.maxWaitTimeoutReference = Null], "maxWait", script)

ThrottleTrailingCallback(w, script) ==
    LET w1 == IF w.pendingArgumentsReference # Null
              THEN IF config.impl = "useThrottleCallback"
                   THEN ThrottleInvokeFunction(w, w.pendingArgumentsReference,
                                               "trailing", script)
                   ELSE InvokeFunction(w, "trailing", script)
              ELSE w
    IN  IF w1.threw THEN w1 ELSE [w1 EXCEPT !.timeoutReference = Null]

TimerCallback(w, kind, script) ==
    CASE kind = "debounceTrailing" -> DebounceTrailingCallback(w, script)
      [] kind = "maxWait" -> MaxWaitCallback(w, script)
      [] OTHER -> ThrottleTrailingCallback(w, script)

\* ------------------------------------------------------------------ steps
InitReferences ==
    [timeoutReference |-> Null, maxWaitTimeoutReference |-> Null,
     lastCallTimeReference |-> 0, lastInvokeTimeReference |-> 0,
     pendingArgumentsReference |-> Null]

Init ==
    /\ config \in Configs
    /\ now = StartTime
    /\ references = InitReferences
    /\ timers = <<>>
    /\ calls = <<>>
    /\ log = <<>>
    /\ control = [cancel |-> "never", flushed |-> FALSE]
    /\ lastEvent = [op |-> "init", threw |-> FALSE, reentered |-> FALSE]
    /\ mounted = TRUE
    /\ environment = [scripts |-> Returns, maxCalls |-> MaxCalls]
    /\ HooksUnused

InitEnv ==
    /\ config \in Configs
    /\ now = StartTime
    /\ references = InitReferences
    /\ timers = <<>>
    /\ calls = <<>>
    /\ log = <<>>
    /\ control = [cancel |-> "never", flushed |-> FALSE]
    /\ lastEvent = [op |-> "init", threw |-> FALSE, reentered |-> FALSE]
    /\ mounted = TRUE
    /\ environment = [scripts |-> Scripts, maxCalls |-> MaxEnvCalls]
    /\ HooksUnused

\* The handler's result becomes the next state.
Commit(w, op) ==
    /\ Len(w.calls) <= environment.maxCalls
    /\ references' = RefsOf(w)
    /\ timers' = w.timers
    /\ calls' = w.calls
    /\ log' = w.log
    /\ control' = w.control
    /\ lastEvent' = [op |-> op, threw |-> w.threw, reentered |-> w.reentered]

\* The user calls the wrapper.
Invoke ==
    /\ mounted
    /\ Len(calls) < environment.maxCalls
    /\ \E script \in environment.scripts :
          Commit(IF config.impl = "useThrottleCallback"
                 THEN ThrottledCallback(World, script)
                 ELSE DelayedCallback(World, script), "invoke")
    /\ UNCHANGED <<config, now, mounted, environment>>
    /\ UNCHANGED hooks

CancelCall ==
    /\ mounted
    /\ Commit(IF config.impl = "useThrottleCallback"
              THEN ThrottleCancel(World) ELSE Cancel(World), "cancel")
    /\ UNCHANGED <<config, now, mounted, environment>>
    /\ UNCHANGED hooks

FlushCall ==
    /\ mounted
    /\ \E script \in environment.scripts :
          Commit(IF config.impl = "useThrottleCallback"
                 THEN ThrottleFlush(World, script)
                 ELSE Flush(World, script), "flush")
    /\ UNCHANGED <<config, now, mounted, environment>>
    /\ UNCHANGED hooks

DueTimers == {i \in DOMAIN timers : timers[i].due <= now}

\* The host runs the first due timer: it leaves the table, then its callback runs.
FireTimer ==
    /\ DueTimers # {}
    /\ LET i == CHOOSE j \in DueTimers : \A k \in DueTimers : j <= k
           w == [World EXCEPT !.timers = SelectSeq(@, LAMBDA x : x.handle # timers[i].handle)]
       IN  \E script \in environment.scripts :
              Commit(TimerCallback(w, timers[i].kind, script), timers[i].kind)
    /\ UNCHANGED <<config, now, mounted, environment>>
    /\ UNCHANGED hooks

\* Cleanup effect of the owning component: cancel() on unmount.
\* Mutant: unmounting does not cancel.
UnmountWithoutCancel ==
    /\ mounted
    /\ mounted' = FALSE
    /\ Commit(World, "unmount")
    /\ UNCHANGED <<config, now, environment>>
    /\ UNCHANGED hooks

Unmount ==
    /\ mounted
    /\ mounted' = FALSE
    /\ Commit(IF config.impl = "useThrottleCallback"
              THEN ThrottleCancel(World) ELSE Cancel(World), "unmount")
    /\ UNCHANGED <<config, now, environment>>
    /\ UNCHANGED hooks

Tick ==
    /\ DueTimers = {}
    /\ now < MaxTime
    /\ now' = now + 1
    /\ lastEvent' = [op |-> "tick", threw |-> FALSE, reentered |-> FALSE]
    /\ UNCHANGED <<config, references, timers, calls, log, control, mounted, environment>>
    /\ UNCHANGED hooks

Next == Invoke \/ CancelCall \/ FlushCall \/ FireTimer \/ Unmount \/ Tick

Spec == Init /\ [][Next]_vars

SpecEnv == InitEnv /\ [][Next]_vars

\* ------------------------------------------------------------ observations
IsPending == references.pendingArgumentsReference # Null

LastCall == Len(calls)

Debounce == config.mode = "debounce"

Throttle == config.mode = "throttle"

HasMaxWait == config.maxWait # 0 /\ config.maxWait < Infinity

\* Neither cancel() (nor the unmount cleanup, which calls it) nor flush() was called.
NoCancelNoFlush == control.cancel = "never" /\ ~control.flushed

\* Every invoke call came strictly less than delay after the one before it.
CallsWithinDelay ==
    \A k \in 2..Len(calls) : calls[k].at - calls[k - 1].at < config.delay

\* --------------------------------------------------------------------- C1
\* C1 (P1, debounce coalescing): debounce, leading = false, no maxWait, no
\* cancel and no flush.  While every invoke call so far came strictly less
\* than delay after the previous one, the action has run at most once, and
\* if it ran it ran delay after the last call with the last call's args (so
\* never while the burst was still going).
C1_DebounceCoalescing ==
    (Debounce /\ ~config.leading /\ ~HasMaxWait /\ NoCancelNoFlush /\ CallsWithinDelay)
        => /\ Len(log) <= 1
           /\ \A i \in DOMAIN log :
                 /\ log[i].args = LastCall
                 /\ log[i].at = calls[LastCall].at + config.delay

C1_Witness ==
    /\ Debounce /\ ~config.leading /\ ~HasMaxWait /\ NoCancelNoFlush /\ CallsWithinDelay
    /\ Len(calls) = MaxCalls
    /\ calls[1].at < calls[LastCall].at
    /\ Len(log) = 1
    /\ log[1].args = LastCall

\* --------------------------------------------------------------------- C2
\* C2 (P4, throttle rate cap): in throttle mode, as long as flush() was not
\* called, any two invocations of the action are at least delay apart.
C2_ThrottleRateCap ==
    (Throttle /\ ~control.flushed)
        => \A i, j \in DOMAIN log : i < j => log[j].at - log[i].at >= config.delay

\* Supporting check: the rate cap holds in every throttle configuration
\* other than leading = false, trailing = true.
C2_RateCapOtherConfigs ==
    (Throttle /\ ~control.flushed /\ (config.leading \/ ~config.trailing))
        => \A i, j \in DOMAIN log : i < j => log[j].at - log[i].at >= config.delay

\* --------------------------------------------------------------------- C3
\* C3 (P6, flush invokes immediately): in every configuration, a flush()
\* that finds pending args invokes the action exactly once with them, leaves
\* no timer of the instance live, and leaves isPending() false.
C3_FlushInvokesPending ==
    [][(lastEvent'.op = "flush" /\ IsPending)
          => /\ log' = Append(log, [args |-> references.pendingArgumentsReference,
                                     at |-> now, via |-> "flush"])
             /\ timers' = <<>>
             /\ ~IsPending']_vars

\* --------------------------------------------------------------------- C4
\* C4 (P5, cancel discards pending): right after cancel() isPending() is
\* false, and from cancel() on, no step without an invoke call invokes the
\* action until an invoke call is made, whatever timers fire and however
\* much time passes.
C4_CancelDiscardsPending ==
    [][/\ lastEvent'.op = "cancel" => ~IsPending'
       /\ (control.cancel = "quiet" /\ control'.cancel = "quiet" /\ calls' = calls)
              => log' = log]_vars

Delivered == {log[i].args : i \in DOMAIN log}

\* A call was cancelled undelivered and its delay (and maxWait) has since elapsed.
C4_Witness ==
    /\ control.cancel = "quiet"
    /\ mounted
    /\ calls # <<>>
    /\ LastCall \notin Delivered
    /\ now > calls[LastCall].at + config.delay
    /\ HasMaxWait => now > calls[LastCall].at + config.maxWait

\* --------------------------------------------------------------------- C5
\* The first call of each burst: the first call ever, or one made delay or
\* more after the call before it.
BurstFirstCalls ==
    {k \in DOMAIN calls : k = 1 \/ calls[k].at - calls[k - 1].at >= config.delay}

\* C5 (P3, debounce maxWait): debounce with maxWait set, no cancel and no
\* flush.  Once more than maxWait has passed since the first call of a burst,
\* the action has been invoked, with args of that burst pending at the time,
\* no later than maxWait after that first call - however the later calls of
\* the burst kept resetting the trailing timer.
C5_MaxWaitForcesInvocation ==
    (Debounce /\ HasMaxWait /\ NoCancelNoFlush)
        => \A f \in BurstFirstCalls :
              now > calls[f].at + config.maxWait
                  => \E i \in DOMAIN log :
                        /\ log[i].args >= f
                        /\ log[i].at <= calls[f].at + config.maxWait

\* The max-wait timer delivered a later call of a burst whose trailing timer
\* was reset and has not fired.
C5_Witness ==
    /\ Debounce /\ HasMaxWait /\ NoCancelNoFlush /\ ~config.leading
    /\ Len(calls) >= 2
    /\ CallsWithinDelay
    /\ calls[1].at < calls[LastCall].at
    /\ now > calls[1].at + config.maxWait
    /\ Len(log) = 1
    /\ log[1].via = "maxWait"
    /\ log[1].args > 1
    /\ log[1].at = calls[1].at + config.maxWait
    /\ log[1].at < calls[log[1].args].at + config.delay

\* --------------------------------------------------------------------- C6
\* The args of the latest leading-edge invocation (0 if there was none).
LastLeadingArgs ==
    LET leadings == {i \in DOMAIN log : log[i].via = "leading"}
    IN  IF leadings = {} THEN 0
        ELSE log[CHOOSE i \in leadings : \A j \in leadings : j <= i].args

\* A call was made after the leading call, while the trailing timer was live.
LaterCallMade == LastCall > LastLeadingArgs

TrailingInvocation ==
    log' = Append(log, [args |-> LastCall, at |-> now, via |-> "trailing"])

LeadingCallInvokes ==
    (lastEvent'.op = "invoke" /\ references.timeoutReference = Null)
        => /\ Len(log') > Len(log)
           /\ log'[Len(log) + 1] = [args |-> LastCall + 1, at |-> now, via |-> "leading"]

LaterCallDoesNotInvoke ==
    (lastEvent'.op = "invoke" /\ references.timeoutReference # Null) => log' = log

\* C6 as stated (P2, debounce leading edge): debounce with leading = true.
\* The first call of a quiet period invokes at once; a call made while the
\* trailing timer is live does not invoke; and when the trailing timer fires
\* there is exactly one further invocation if a later call was made, and
\* none otherwise.
C6_LeadingEdgeAsStated ==
    [][(Debounce /\ config.leading)
          => /\ LeadingCallInvokes
             /\ LaterCallDoesNotInvoke
             /\ lastEvent'.op = "debounceTrailing"
                    => IF LaterCallMade THEN TrailingInvocation ELSE log' = log]_vars

\* C6 amended: the trailing invocation happens if and only if a later call
\* was made and its args are still pending when the trailing timer fires
\* (the max-wait timer has not taken them in the meantime).
C6_LeadingEdge ==
    [][(Debounce /\ config.leading)
          => /\ LeadingCallInvokes
             /\ LaterCallDoesNotInvoke
             /\ lastEvent'.op = "debounceTrailing"
                    => IF LaterCallMade /\ IsPending
                       THEN TrailingInvocation ELSE log' = log]_vars

\* The trailing timer has just delivered a later call of a leading-edge burst.
C6_Witness ==
    /\ Debounce /\ config.leading
    /\ lastEvent.op = "debounceTrailing"
    /\ Len(log) = 2
    /\ log[1].via = "leading" /\ log[1].args = 1
    /\ log[2].via = "trailing" /\ log[2].args = LastCall
    /\ LastCall > 1

\* --------------------------------------------------------------------- C7
\* C7 (single delivery): the args recorded by one invoke call are passed to
\* the action at most once, under every interleaving of invoke, timers,
\* flush and cancel, the calls made from inside the action included.
C7_SingleDelivery ==
    \A i, j \in DOMAIN log : i < j => log[i].args # log[j].args

\* --------------------------------------------------------------------- C8
TrailingTimers == {i \in DOMAIN timers : timers[i].kind # "maxWait"}

MaxWaitTimers == {i \in DOMAIN timers : timers[i].kind = "maxWait"}

\* C8 (timer slots): at most one trailing timer and at most one max-wait
\* timer are live, and every live timer is the one its handle ref names (a
\* timer whose handle was overwritten or forgotten cannot fire any more).
C8_TimerSlots ==
    /\ Cardinality(TrailingTimers) <= 1
    /\ Cardinality(MaxWaitTimers) <= 1
    /\ \A i \in TrailingTimers : timers[i].handle = references.timeoutReference
    /\ \A i \in MaxWaitTimers : timers[i].handle = references.maxWaitTimeoutReference

\* Supporting check: the slots hold in every configuration other than
\* throttle with leading = false and trailing = true.
C8_TimerSlotsOtherConfigs ==
    (Debounce \/ config.leading \/ ~config.trailing) => C8_TimerSlots

\* --------------------------------------------------------------------- C9
\* C9 (failure semantics): when the action throws out of a step, pendingArgs
\* is already empty and the handle of the timer that fired is already
\* cleared, so isPending() is false.
C9_ThrowLeavesStateClean ==
    lastEvent.threw
        => /\ ~IsPending
           /\ lastEvent.op = "maxWait" => references.maxWaitTimeoutReference = Null
           /\ lastEvent.op \in {"debounceTrailing", "throttleTrailing"}
                  => references.timeoutReference = Null

\* -------------------------------------------------------------------- C10
\* C10 (re-entrancy): after a step in which the action, while being invoked,
\* itself called invoke(args'), pendingArgs still holds args' unless args'
\* were already delivered (in the configurations whose policy delivers
\* pending args later: debounce, or throttle with trailing = true).
C10_ReentrantCallKept ==
    (/\ Debounce \/ config.trailing
     /\ lastEvent.reentered /\ ~lastEvent.threw
     /\ LastCall \notin Delivered)
        => references.pendingArgumentsReference = LastCall

\* -------------------------------------------------------------------- C11
\* C11 (most recent args): every invocation of the action, by the immediate
\* path, the trailing timer, the max-wait timer or flush, is made with the
\* args of the most recent invoke call made before it.
C11_MostRecentArgs ==
    [][\A i \in DOMAIN log' \ DOMAIN log : log'[i].args = Len(calls')]_vars

\* The same when the action may call back: the first invocation of a step
\* carries the latest call's args, a second one (made from inside the
\* action) those of the latest call at that point.
C11_MostRecentArgsEnv ==
    [][\A i \in DOMAIN log' \ DOMAIN log :
          IF i = Len(log) + 1
          THEN log'[i].args = IF lastEvent'.op = "invoke" THEN Len(calls) + 1 ELSE Len(calls)
          ELSE log'[i].args \in {log'[Len(log) + 1].args, Len(calls')}]_vars

\* A timer delivered the second call's args after the first call's args
\* were overwritten undelivered.
C11_Witness ==
    /\ Len(calls) >= 2
    /\ 1 \notin Delivered
    /\ \E i \in DOMAIN log : log[i].args = LastCall /\ log[i].via # "leading"

\* -------------------------------------------------------------------- C12
\* C12 (isPending accuracy): isPending() is never true in a state where no
\* live timer will deliver the pending args, in every configuration of both
\* modes (stated here for the configurations with at least one edge on).
C12_PendingHasLiveTimer ==
    (config.leading \/ config.trailing) => (IsPending => timers # << >>)

\* The same restricted to the configurations that schedule a trailing
\* invocation (debounce, and throttle with trailing = TRUE).
C12_PendingHasLiveTimerTrailing ==
    (Debounce \/ config.trailing) => (IsPending => timers # << >>)

\* -------------------------------------------------------------------- C13
\* An invoke call made while no call has been made since the last cancel().
CallAfterCancel == control.cancel = "quiet" /\ lastEvent'.op = "invoke"

\* What the first call on a new invoker does to the log: it invokes the
\* action immediately exactly when leading is on.
AsFirstCall ==
    log' = IF config.leading
           THEN Append(log, [args |-> Len(calls) + 1, at |-> now, via |-> "leading"])
           ELSE log

\* C13 (cancel starts a fresh window): the first invoke call after cancel()
\* is handled as the first call on a new invoker; in throttle mode with
\* leading = TRUE it invokes the action immediately, however recent the last
\* invocation.
C13_CancelStartsFreshWindow == [][CallAfterCancel => AsFirstCall]_vars

\* In debounce mode cancel() does start a fresh window.
C13_FreshWindowDebounce == [][Debounce /\ CallAfterCancel => AsFirstCall]_vars

\* -------------------------------------------------------------------- C14
\* A cancel() call made while pendingArgs is empty.
CancelWithNothingPending == lastEvent'.op = "cancel" /\ ~IsPending

\* The timers whose handles the invoker does not hold.
TimersNotHeld ==
    SelectSeq(timers, LAMBDA t : t.handle \notin {references.timeoutReference,
                                                  references.maxWaitTimeoutReference})

\* C14 as stated (P8 for cancel): cancel() with pendingArgs empty leaves the
\* invoker state unchanged, live timer handles included (lastCallTime, which
\* nothing reads, is left out of the comparison).
C14_CancelNoOpAsStated ==
    [][CancelWithNothingPending =>
          /\ log' = log
          /\ timers' = timers
          /\ references' = [references EXCEPT
                 !.lastCallTimeReference = references'.lastCallTimeReference]]_vars

\* C14 amended: cancel() with pendingArgs empty does not throw and does not
\* invoke the action; it clears the timers whose handles the invoker holds
\* and resets lastCallTime, and leaves pendingArgs, lastInvokeTime and every
\* other timer as they were.
C14_CancelNothingPending ==
    [][CancelWithNothingPending =>
          /\ log' = log
          /\ ~lastEvent'.threw
          /\ timers' = TimersNotHeld
          /\ references' = [references EXCEPT !.timeoutReference = Null,
                                              !.maxWaitTimeoutReference = Null,
                                              !.lastCallTimeReference = 0]]_vars

\* cancel() has just run in debounce with leading = TRUE right after the
\* leading call, when only the trailing timer was live and nothing pending.
C14_Witness ==
    /\ lastEvent.op = "cancel"
    /\ Debounce /\ config.leading
    /\ Len(calls) = 1 /\ Len(log) = 1
    /\ now = calls[1].at
    /\ timers = << >>

\* -------------------------------------------------------------------- C15
\* C15 (P8 for flush): flush() with pendingArgs empty does not throw, does
\* not invoke the action and leaves pendingArgs, both timer handles, the
\* live timers and the timestamps unchanged.
C15_FlushNothingPending ==
    [][lastEvent'.op = "flush" /\ ~IsPending =>
          /\ log' = log
          /\ ~lastEvent'.threw
          /\ timers' = timers
          /\ references' = references]_vars

\* flush() has just run in debounce with leading = TRUE right after the
\* leading call fired: the trailing timer is still live.
C15_Witness ==
    /\ lastEvent.op = "flush"
    /\ Debounce /\ config.leading
    /\ Len(calls) = 1 /\ Len(log) = 1
    /\ now = calls[1].at
    /\ references.timeoutReference \in LiveHandles(World)

\* -------------------------------------------------------------------- C16
\* C16 (teardown): the unmount runs cancel(), and from then on the action is
\* never invoked, even if a trailing or max-wait timer was scheduled at the
\* moment of unmount.
C16_NoInvocationAfterUnmount == [][~mounted' => log' = log]_vars

\* The component was unmounted with the last call undelivered, and the time
\* at which its trailing (and max-wait) timer was due has passed.
C16_Witness ==
    /\ ~mounted
    /\ calls # << >>
    /\ LastCall \notin Delivered
    /\ config.trailing
    /\ now > calls[LastCall].at + config.delay
    /\ control.cancel = "quiet"

\* -------------------------------------------------------------------- C17
\* C17 (cancel clears every timer): immediately after cancel(), and after
\* teardown, no timer scheduled by the invoker is still live, in every mode
\* and configuration and after every sequence of invoke calls.
C17_CancelClearsEveryTimer ==
    lastEvent.op \in {"cancel", "unmount"} => timers = << >>

\* In every configuration other than throttle with leading = FALSE and
\* trailing = TRUE cancel() and teardown leave no live timer.
C17_CancelClearsOtherConfigs ==
    ~(Throttle /\ ~config.leading /\ config.trailing) =>
        (lastEvent.op \in {"cancel", "unmount"} => timers = << >>)

\* -------------------------------------------------------------------- C18
\* The latest burst: the invoke calls made at the instant of the last call.
BurstTime == calls[LastCall].at

Burst == {k \in DOMAIN calls : calls[k].at = BurstTime}

BurstFirst == CHOOSE k \in Burst : \A j \in Burst : k <= j

\* The latest burst started from a quiet state: every call was made by the
\* caller, every earlier call was delivered and every earlier invocation is
\* at least delay old.
BurstFromQuiet ==
    /\ calls # << >>
    /\ NoCancelNoFlush
    /\ \A k \in DOMAIN calls : ~calls[k].reentrant
    /\ BurstFirst > 1 => BurstFirst - 1 \in Delivered
    /\ \A i \in DOMAIN log :
          log[i].args < BurstFirst => log[i].at + config.delay <= BurstTime

\* The invocations that carry args of the latest burst.
BurstInvocations == {i \in DOMAIN log : log[i].args >= BurstFirst}

\* C18 (throttle burst count): with leading = TRUE and trailing = TRUE, k >= 2
\* calls in immediate succession from a quiet state produce exactly one
\* immediate invocation with the first call's args and, once delay has
\* elapsed, exactly one trailing invocation with the last call's args.
C18_ThrottleBurstCount ==
    (Throttle /\ config.leading /\ config.trailing
        /\ BurstFromQuiet /\ Cardinality(Burst) >= 2) =>
        LET immediate == {i \in BurstInvocations :
                log[i] = [args |-> BurstFirst, at |-> BurstTime, via |-> "leading"]}
            trailing == {i \in BurstInvocations :
                log[i] = [args |-> LastCall, at |-> BurstTime + config.delay,
                          via |-> "trailing"]}
        IN  /\ Cardinality(immediate) = 1
            /\ Cardinality(trailing) <= 1
            /\ BurstInvocations = immediate \cup trailing
            /\ now < BurstTime + config.delay => trailing = {}
            /\ now > BurstTime + config.delay => Cardinality(trailing) = 1

\* -------------------------------------------------------------------- C19
\* Every invoke call so far belongs to the first burst: the calls were made
\* by the caller on a new invoker, before any invocation.
FirstBurst ==
    /\ calls # << >>
    /\ NoCancelNoFlush
    /\ \A k \in DOMAIN calls : ~calls[k].reentrant
    /\ \A i \in DOMAIN log : log[i].args = LastCall

\* The burst produces exactly one invocation, delay after its first call,
\* with the args pending then.
OneInvocationAfterDelay ==
    /\ Len(log) <= 1
    /\ \A i \in DOMAIN log :
          log[i] = [args |-> LastCall, at |-> calls[1].at + config.delay, via |-> "trailing"]
    /\ now > calls[1].at + config.delay => Len(log) = 1

\* C19 (throttle, leading = FALSE, trailing = TRUE): a burst of one or more
\* calls from a quiet state produces exactly one invocation, delay after the
\* first call of the burst, carrying the args pending then.
C19_ThrottleTrailingOnly ==
    (Throttle /\ ~config.leading /\ config.trailing /\ FirstBurst)
        => OneInvocationAfterDelay

\* The other half of C19: with leading = FALSE an invoke call never invokes
\* the action synchronously.
C19_NoSynchronousInvocation ==
    [][(Throttle /\ ~config.leading /\ config.trailing /\ lastEvent'.op = "invoke")
          => log' = log]_vars

\* -------------------------------------------------------------------- C20
\* Call k starts a burst: it is the first call, or a timer delivered the
\* previous call (and so ended its burst) before call k was made.
StartsBurst(k) ==
    \/ k = 1
    \/ \E i \in DOMAIN log : log[i].args = k - 1 /\ log[i].via \in {"trailing", "maxWait"}

CurrentBurstFirst ==
    CHOOSE k \in DOMAIN calls :
        StartsBurst(k) /\ \A j \in DOMAIN calls : StartsBurst(j) => j <= k

\* C20 (max-wait anchoring): in debounce mode with maxWait set, a live
\* max-wait timer is due at (time of the first call of the current burst) +
\* maxWait; a max-wait timer of an earlier burst that ended with a trailing
\* invocation is not live in a later burst (stated for leading = FALSE, where
\* every call of a burst waits for a timer).
C20_MaxWaitAnchoring ==
    (Debounce /\ HasMaxWait /\ ~config.leading /\ NoCancelNoFlush /\ calls # << >>
        /\ \A k \in DOMAIN calls : ~calls[k].reentrant) =>
        \A i \in MaxWaitTimers :
            timers[i].due = calls[CurrentBurstFirst].at + config.maxWait

\* -------------------------------------------------------------------- C21
\* The calls that were invoked on the leading edge and were not followed by
\* another call within delay: bursts of exactly one call.
SingleCallBursts ==
    {k \in DOMAIN calls :
        /\ \E i \in DOMAIN log : log[i] = [args |-> k, at |-> calls[k].at, via |-> "leading"]
        /\ k < LastCall => calls[k + 1].at >= calls[k].at + config.delay}

\* C21 (leading call is not repeated): in debounce mode with leading = TRUE,
\* with or without maxWait, a burst of exactly one invoke call produces
\* exactly one invocation; the trailing timer and the max-wait timer still
\* fire and clear their handles but do not invoke the action again.
C21_LeadingCallNotRepeated ==
    (Debounce /\ config.leading) =>
        \A k \in SingleCallBursts :
            /\ Cardinality({i \in DOMAIN log : log[i].args = k}) = 1
            /\ (k = LastCall /\ now > calls[k].at + config.delay) =>
                  (references.timeoutReference = Null /\ TrailingTimers = {})
            /\ (k = LastCall /\ HasMaxWait /\ now > calls[k].at + config.maxWait) =>
                  (references.maxWaitTimeoutReference = Null /\ MaxWaitTimers = {})

\* ====================================================================
\* useDebounceCallback / useThrottleCallback: the options argument
\* ====================================================================
\* An optional field is << >> when it is undefined and <<v>> when it is v.
Coalesce(field, default) == IF field = << >> THEN default ELSE field[1]

DefaultDelay == 500

\* The options arguments explored: the argument omitted, a bare number, and
\* option objects with every field either given or left out.
OptionInputs ==
    [hook : {"useDebounceCallback", "useThrottleCallback"}, form : {"omitted", "number"},
     number : {Delay}, delay : {<< >>}, leading : {<< >>}, trailing : {<< >>},
     maxWait : {<< >>}]
    \cup
    [hook : {"useDebounceCallback"}, form : {"object"},
     number : {Delay}, delay : {<< >>, <<Delay>>},
     leading : {<< >>, <<TRUE>>, <<FALSE>>}, trailing : {<< >>},
     maxWait : {<< >>, <<MaxWaitShort>>}]
    \cup
    [hook : {"useThrottleCallback"}, form : {"object"},
     number : {Delay}, delay : {<< >>, <<Delay>>},
     leading : {<< >>, <<TRUE>>, <<FALSE>>}, trailing : {<< >>, <<TRUE>>, <<FALSE>>},
     maxWait : {<< >>}]

\* Mutant: the bare number turns the leading edge on.
NormalizeDebounceOptionsLeading(o) ==
    IF o.form = "omitted"
    THEN [delay |-> DefaultDelay, leading |-> TRUE, maxWait |-> Infinity]
    ELSE IF o.form = "number"
    THEN [delay |-> o.number, leading |-> TRUE, maxWait |-> Infinity]
    ELSE [delay |-> Coalesce(o.delay, DefaultDelay),
          leading |-> Coalesce(o.leading, FALSE),
          maxWait |-> Coalesce(o.maxWait, Infinity)]

\* normalizedOptions of useDebounceCallback; an omitted argument is the
\* default parameter value 500.
NormalizeDebounceOptions(o) ==
    IF o.form = "omitted"
    THEN [delay |-> DefaultDelay, leading |-> FALSE, maxWait |-> Infinity]
    ELSE IF o.form = "number"
    THEN [delay |-> o.number, leading |-> FALSE, maxWait |-> Infinity]
    ELSE [delay |-> Coalesce(o.delay, DefaultDelay),
          leading |-> Coalesce(o.leading, FALSE),
          maxWait |-> Coalesce(o.maxWait, Infinity)]

\* options_ of useThrottleCallback.
NormalizeThrottleOptions(o) ==
    IF o.form = "omitted"
    THEN [delay |-> DefaultDelay, leading |-> TRUE, trailing |-> TRUE]
    ELSE IF o.form = "number"
    THEN [delay |-> o.number, leading |-> TRUE, trailing |-> TRUE]
    ELSE [delay |-> Coalesce(o.delay, DefaultDelay),
          leading |-> Coalesce(o.leading, TRUE),
          trailing |-> Coalesce(o.trailing, TRUE)]

\* The configuration the hook runs with.
HookConfig(o) ==
    IF o.hook = "useDebounceCallback"
    THEN LET n == NormalizeDebounceOptions(o)
         IN  [impl |-> "createDelayedCallback", mode |-> "debounce", delay |-> n.delay,
              leading |-> n.leading, trailing |-> TRUE, maxWait |-> n.maxWait]
    ELSE LET n == NormalizeThrottleOptions(o)
         IN  [impl |-> "useThrottleCallback", mode |-> "throttle", delay |-> n.delay,
              leading |-> n.leading, trailing |-> n.trailing, maxWait |-> Infinity]

InitOptions ==
    /\ options \in OptionInputs
    /\ config = HookConfig(options)
    /\ now = StartTime
    /\ references = InitReferences
    /\ timers = <<>>
    /\ calls = <<>>
    /\ log = <<>>
    /\ control = [cancel |-> "never", flushed |-> FALSE]
    /\ lastEvent = [op |-> "init", threw |-> FALSE, reentered |-> FALSE]
    /\ mounted = TRUE
    /\ environment = [scripts |-> Returns, maxCalls |-> MaxEnvCalls]
    /\ other = Unused
    /\ useDebounce = Unused
    /\ useTimeout = Unused
    /\ useInterval = Unused
    /\ useCounter = Unused
    /\ RestUnused

SpecOptions == InitOptions /\ [][Next]_vars

\* -------------------------------------------------------------------- C22
\* The option object the numeric shorthand is said to stand for.
ShorthandAsObject(o) ==
    [o EXCEPT !.form = "object",
              !.delay = <<IF o.form = "omitted" THEN DefaultDelay ELSE o.number>>,
              !.leading = <<o.hook = "useThrottleCallback">>,
              !.trailing = IF o.hook = "useThrottleCallback" THEN <<TRUE>> ELSE << >>,
              !.maxWait = << >>]

\* C22 (numeric shorthand): useDebounceCallback(cb, n) runs with the
\* configuration of {delay: n, leading: false}, trailing on and maxWait
\* unbounded; useThrottleCallback(cb, n) with that of {delay: n, leading:
\* true, trailing: true}; omitted options take delay 500 and the same
\* defaults. The invoker's behaviour is a function of that configuration.
C22_NumericShorthand ==
    /\ options.form \in {"number", "omitted"} =>
          /\ config = HookConfig(ShorthandAsObject(options))
          /\ config.trailing
          /\ config.maxWait = Infinity
          /\ config.leading = (options.hook = "useThrottleCallback")
          /\ config.delay = IF options.form = "omitted" THEN DefaultDelay ELSE options.number
    /\ options.form = "object" =>
          /\ options.delay = << >> => config.delay = DefaultDelay
          /\ options.leading = << >> =>
                config.leading = (options.hook = "useThrottleCallback")
          /\ options.trailing = << >> => config.trailing
          /\ options.maxWait = << >> => config.maxWait = Infinity

\* The debounced callback made from a bare number has delivered a call on
\* the trailing edge, delay after it was made.
C22_Witness ==
    /\ options.hook = "useDebounceCallback" /\ options.form = "number"
    /\ Len(calls) = 1
    /\ log = <<[args |-> 1, at |-> calls[1].at + options.number, via |-> "trailing"]>>

\* -------------------------------------------------------------------- C23
\* C23 (eventual trailing delivery): with trailing = TRUE and no cancel or
\* teardown, the args of the last invoke call are never silently discarded:
\* until they are passed to the action they stay pending.
C23_TrailingArgsNotDiscarded ==
    (config.trailing /\ control.cancel = "never" /\ mounted
        /\ calls # << >> /\ LastCall \notin Delivered) => IsPending

\* Without flush() the last call's args stay pending with a live timer until
\* they are delivered, and are delivered once.
C23_DeliveredWithoutFlush ==
    (config.trailing /\ NoCancelNoFlush /\ mounted /\ calls # << >>) =>
        /\ LastCall \notin Delivered => (IsPending /\ timers # << >>)
        /\ Cardinality({i \in DOMAIN log : log[i].args = LastCall}) <= 1

\* ====================================================================
\* Two invoker instances on one host
\* ====================================================================
\* Each instance has its own refs (useDelayedReferences is called once per
\* hook instance); the host timer table and the clock are the host's. No
\* history is kept for the instances beyond the number of invoke calls, and
\* handles names the live timers an instance scheduled.
Instances == 1..2

InitInstance ==
    [references |-> InitReferences, calls |-> 0, mounted |-> TRUE, handles |-> {}]

InstanceWorld(i) ==
    [timeoutReference |-> other[i].references.timeoutReference,
     maxWaitTimeoutReference |-> other[i].references.maxWaitTimeoutReference,
     lastCallTimeReference |-> other[i].references.lastCallTimeReference,
     lastInvokeTimeReference |-> other[i].references.lastInvokeTimeReference,
     pendingArgumentsReference |-> other[i].references.pendingArgumentsReference,
     timers |-> timers,
     calls |-> [k \in 1..other[i].calls |-> [at |-> 0, reentrant |-> FALSE]],
     log |-> <<>>, control |-> [cancel |-> "never", flushed |-> FALSE],
     threw |-> FALSE, reentered |-> FALSE]

InstanceCommit(i, w, op) ==
    /\ other' = [other EXCEPT ![i] =
                    [references |-> RefsOf(w), calls |-> Len(w.calls),
                     mounted |-> other[i].mounted /\ op # "unmount",
                     handles |-> (other[i].handles \cap LiveHandles(w))
                                     \cup (LiveHandles(w) \ LiveHandles(World))]]
    /\ timers' = w.timers
    /\ lastEvent' = [op |-> "instance", threw |-> w.threw, reentered |-> w.reentered]
    /\ UNCHANGED <<config, now, references, calls, log, control, mounted, environment,
                   options, useDebounce, useTimeout, useInterval, useCounter, rest>>

InstanceInvoke ==
    \E i \in Instances :
        /\ other[i].mounted
        /\ other[i].calls < environment.maxCalls
        /\ \E script \in environment.scripts :
              InstanceCommit(i, IF config.impl = "useThrottleCallback"
                                THEN ThrottledCallback(InstanceWorld(i), script)
                                ELSE DelayedCallback(InstanceWorld(i), script), "invoke")

InstanceCancel ==
    \E i \in Instances :
        /\ other[i].mounted
        /\ InstanceCommit(i, IF config.impl = "useThrottleCallback"
                             THEN ThrottleCancel(InstanceWorld(i))
                             ELSE Cancel(InstanceWorld(i)), "cancel")

InstanceFlush ==
    \E i \in Instances :
        /\ other[i].mounted
        /\ \E script \in environment.scripts :
              InstanceCommit(i, IF config.impl = "useThrottleCallback"
                                THEN ThrottleFlush(InstanceWorld(i), script)
                                ELSE Flush(InstanceWorld(i), script), "flush")

InstanceDueTimers(i) == {j \in DueTimers : timers[j].handle \in other[i].handles}

InstanceFireTimer ==
    \E i \in Instances :
        /\ InstanceDueTimers(i) # {}
        /\ LET j == CHOOSE x \in InstanceDueTimers(i) : \A y \in InstanceDueTimers(i) : x <= y
               w == [InstanceWorld(i) EXCEPT
                        !.timers = SelectSeq(@, LAMBDA x : x.handle # timers[j].handle)]
           IN  \E script \in environment.scripts :
                  InstanceCommit(i, TimerCallback(w, timers[j].kind, script), timers[j].kind)

InstanceUnmount ==
    \E i \in Instances :
        /\ other[i].mounted
        /\ InstanceCommit(i, IF config.impl = "useThrottleCallback"
                             THEN ThrottleCancel(InstanceWorld(i))
                             ELSE Cancel(InstanceWorld(i)), "unmount")

InitPair ==
    /\ config \in Configs
    /\ now = StartTime
    /\ references = InitReferences
    /\ timers = <<>>
    /\ calls = <<>>
    /\ log = <<>>
    /\ control = [cancel |-> "never", flushed |-> FALSE]
    /\ lastEvent = [op |-> "init", threw |-> FALSE, reentered |-> FALSE]
    /\ mounted = TRUE
    /\ environment = [scripts |-> Returns, maxCalls |-> MaxEnvCalls - 1]
    /\ other = [i \in Instances |-> InitInstance]
    /\ options = Unused
    /\ useDebounce = Unused
    /\ useTimeout = Unused
    /\ useInterval = Unused
    /\ useCounter = Unused
    /\ RestUnused

NextPair ==
    \/ InstanceInvoke \/ InstanceCancel \/ InstanceFlush \/ InstanceFireTimer
    \/ InstanceUnmount \/ Tick

SpecPair == InitPair /\ [][NextPair]_vars

\* -------------------------------------------------------------------- C24
\* The live timers that instance i scheduled.
InstanceTimers(i) == SelectSeq(timers, LAMBDA t : t.handle \in other[i].handles)

invoker == <<config, references, calls, log, control, environment>>

InvokerIdle ==
    /\ config = Unused
    /\ references = InitReferences
    /\ calls = <<>>
    /\ log = <<>>
    /\ control = [cancel |-> "never", flushed |-> FALSE]
    /\ environment = [scripts |-> Returns, maxCalls |-> 0]

HostHandles(ts) == {ts[i].handle : i \in DOMAIN ts}

HostNewHandle(ts) ==
    CHOOSE h \in 1..(Len(ts) + 1) :
        /\ h \notin HostHandles(ts)
        /\ \A g \in 1..(h - 1) : g \in HostHandles(ts)

HostEvent(op) == [op |-> op, threw |-> FALSE, reentered |-> FALSE]

\* ------------------------------------------------------------ useDebounce
InputValues == {1, 2, 3}
InputDelays == {Delay - 1, Delay}
NoChange == [to |-> Null, input |-> Null, held |-> 0, delay |-> 0]

\* Mutant: the effect has no cleanup.
UseDebounceCleanupOmitted(ts, handler) == ts

\* return () => clearTimeout(handler)
UseDebounceCleanup(ts, handler) ==
    SelectSeq(ts, LAMBDA x : x.handle # handler)

\* The effect body: setTimeout(() => setDebouncedValue(value), delay).
UseDebounceEffect(ts, value, delay) ==
    Append(ts, [handle |-> HostNewHandle(ts), due |-> now + delay,
                kind |-> "useDebounce", value |-> value])

\* Mount: useState(value), then the effect runs.  `initial`, `since`,
\* `armedAt`, `skipped` and `change` are history: the first input, when the
\* input took its current value, when the effect last ran, the inputs replaced
\* while their timer was live, and the last setDebouncedValue.
InitUseDebounce ==
    /\ InvokerIdle
    /\ now = StartTime
    /\ mounted = TRUE
    /\ lastEvent = HostEvent("init")
    /\ options = Unused /\ other = Unused
    /\ useTimeout = Unused /\ useInterval = Unused /\ useCounter = Unused /\ RestUnused
    /\ \E value \in InputValues, delay \in InputDelays :
          /\ timers = UseDebounceEffect(<<>>, value, delay)
          /\ useDebounce = [hook |-> "useDebounce", value |-> value, delay |-> delay,
                            debouncedValue |-> value, handler |-> 1,
                            initial |-> value, since |-> now, armedAt |-> now,
                            skipped |-> {}, change |-> NoChange]

\* A render with another value or delay: the dependency list [value, delay]
\* changed, so the previous effect is cleaned up and the effect runs again.
UseDebounceRender ==
    /\ mounted
    /\ \E value \in InputValues, delay \in InputDelays :
          /\ <<value, delay>> # <<useDebounce.value, useDebounce.delay>>
          /\ LET cleaned == UseDebounceCleanup(timers, useDebounce.handler)
             IN  /\ timers' = UseDebounceEffect(cleaned, value, delay)
                 /\ useDebounce' =
                       [useDebounce EXCEPT
                          !.value = value, !.delay = delay,
                          !.handler = HostNewHandle(cleaned),
                          !.since = IF value # useDebounce.value THEN now ELSE @,
                          !.armedAt = now,
                          !.skipped =
                              IF /\ value # useDebounce.value
                                 /\ useDebounce.handler \in HostHandles(timers)
                              THEN @ \cup {useDebounce.value} ELSE @]
    /\ lastEvent' = HostEvent("render")
    /\ UNCHANGED <<now, mounted, options, other, useTimeout, useInterval, useCounter, rest>>
    /\ UNCHANGED invoker

\* The host runs the first due timer: setDebouncedValue(value) of its closure.
UseDebounceFire ==
    /\ DueTimers # {}
    /\ LET i == CHOOSE j \in DueTimers : \A k \in DueTimers : j <= k
       IN  /\ timers' = SelectSeq(timers, LAMBDA x : x.handle # timers[i].handle)
           /\ useDebounce' =
                 [useDebounce EXCEPT
                    !.debouncedValue = timers[i].value,
                    !.change = [to |-> timers[i].value, input |-> useDebounce.value,
                                held |-> now - useDebounce.since,
                                delay |-> useDebounce.delay]]
    /\ lastEvent' = HostEvent("timer")
    /\ UNCHANGED <<now, mounted, options, other, useTimeout, useInterval, useCounter, rest>>
    /\ UNCHANGED invoker

UseDebounceUnmount ==
    /\ mounted
    /\ mounted' = FALSE
    /\ timers' = UseDebounceCleanup(timers, useDebounce.handler)
    /\ lastEvent' = HostEvent("unmount")
    /\ UNCHANGED <<now, options, other, useDebounce, useTimeout, useInterval, useCounter, rest>>
    /\ UNCHANGED invoker

NextUseDebounce == UseDebounceRender \/ UseDebounceFire \/ UseDebounceUnmount \/ Tick

SpecUseDebounce == InitUseDebounce /\ [][NextUseDebounce]_vars

NullableDelays == {<< >>} \cup {<<d>> : d \in InputDelays}
Callbacks == {"first", "second"}
NoInvocation == [at |-> 0, callback |-> "none"]

\* Mutant: the effect returns no cleanup.
UseTimeoutCleanupOmitted(ts, id) == ts

\* return () => clearTimeout(id)
UseTimeoutCleanup(ts, id) ==
    SelectSeq(ts, LAMBDA x : x.handle # id)

\* The effect on [delay]: nothing for null, else setTimeout(..., delay).
UseTimeoutEffect(ts, delay) ==
    IF delay = << >> THEN ts
    ELSE Append(ts, [handle |-> HostNewHandle(ts), due |-> now + delay[1],
                     kind |-> "useTimeout"])

\* The handle the effect holds for its cleanup (Null: no cleanup returned).
UseTimeoutId(ts, delay) ==
    IF delay = << >> THEN Null ELSE HostNewHandle(ts)

\* Mount.  `armedAt`, `fired`, `invocations`, `last` and `afterUnmount` are
\* history: when the [delay] effect last ran, the invocations since then, all
\* invocations, the last one, and the invocations made after unmount.
InitUseTimeout ==
    /\ InvokerIdle
    /\ now = StartTime
    /\ mounted = TRUE
    /\ lastEvent = HostEvent("init")
    /\ options = Unused /\ other = Unused
    /\ useDebounce = Unused /\ useInterval = Unused /\ useCounter = Unused /\ RestUnused
    /\ \E callback \in Callbacks, delay \in NullableDelays :
          /\ timers = UseTimeoutEffect(<<>>, delay)
          /\ useTimeout = [hook |-> "useTimeout", callback |-> callback,
                           savedCallback |-> callback, delay |-> delay,
                           id |-> UseTimeoutId(<<>>, delay),
                           armedAt |-> now, fired |-> 0, invocations |-> 0,
                           last |-> NoInvocation, afterUnmount |-> 0]

\* A render with another callback or delay: the [callback] effect stores the
\* callback, the [delay] effect is cleaned up and runs again.
UseTimeoutRender ==
    /\ mounted
    /\ \E callback \in Callbacks, delay \in NullableDelays :
          /\ <<callback, delay>> # <<useTimeout.callback, useTimeout.delay>>
          /\ IF delay = useTimeout.delay
             THEN /\ timers' = timers
                  /\ useTimeout' = [useTimeout EXCEPT !.callback = callback,
                                                      !.savedCallback = callback]
             ELSE LET cleaned == IF useTimeout.delay = << >> THEN timers
                                 ELSE UseTimeoutCleanup(timers, useTimeout.id)
                  IN  /\ timers' = UseTimeoutEffect(cleaned, delay)
                      /\ useTimeout' = [useTimeout EXCEPT
                                          !.callback = callback,
                                          !.savedCallback = callback,
                                          !.delay = delay,
                                          !.id = UseTimeoutId(cleaned, delay),
                                          !.armedAt = now, !.fired = 0]
    /\ lastEvent' = HostEvent("render")
    /\ UNCHANGED <<now, mounted, options, other, useDebounce, useInterval, useCounter, rest>>
    /\ UNCHANGED invoker

\* The host runs the first due timer: savedCallback.current().
UseTimeoutFire ==
    /\ DueTimers # {}
    /\ LET i == CHOOSE j \in DueTimers : \A k \in DueTimers : j <= k
       IN  timers' = SelectSeq(timers, LAMBDA x : x.handle # timers[i].handle)
    /\ useTimeout' = [useTimeout EXCEPT
                        !.fired = @ + 1, !.invocations = @ + 1,
                        !.last = [at |-> now, callback |-> useTimeout.savedCallback],
                        !.afterUnmount = IF mounted THEN @ ELSE @ + 1]
    /\ lastEvent' = HostEvent("timer")
    /\ UNCHANGED <<now, mounted, options, other, useDebounce, useInterval, useCounter, rest>>
    /\ UNCHANGED invoker

UseTimeoutUnmount ==
    /\ mounted
    /\ mounted' = FALSE
    /\ timers' = IF useTimeout.delay = << >> THEN timers
                 ELSE UseTimeoutCleanup(timers, useTimeout.id)
    /\ lastEvent' = HostEvent("unmount")
    /\ UNCHANGED <<now, options, other, useDebounce, useTimeout, useInterval, useCounter, rest>>
    /\ UNCHANGED invoker

NextUseTimeout == UseTimeoutRender \/ UseTimeoutFire \/ UseTimeoutUnmount \/ Tick

SpecUseTimeout == InitUseTimeout /\ [][NextUseTimeout]_vars

HostIntervalRunsOnce(ts, i) ==
    SelectSeq(ts, LAMBDA x : x.handle # ts[i].handle)

\* The host table after interval timer i ran: it is due again one period later.
HostIntervalRan(ts, i) ==
    [ts EXCEPT ![i].due = @ + ts[i].every]

\* return () => clearInterval(id)
UseIntervalCleanup(ts, id) ==
    SelectSeq(ts, LAMBDA x : x.handle # id)

\* The effect on [delay]: nothing for null, else setInterval(..., delay).
UseIntervalEffect(ts, delay) ==
    IF delay = << >> THEN ts
    ELSE Append(ts, [handle |-> HostNewHandle(ts), due |-> now + delay[1],
                     kind |-> "useInterval", every |-> delay[1]])

UseIntervalId(ts, delay) ==
    IF delay = << >> THEN Null ELSE HostNewHandle(ts)

\* Mount.  `armedAt`, `fired`, `last` and `afterUnmount` are history: when the
\* [delay] effect last ran, the invocations since then, the last invocation,
\* and the invocations made after unmount.
InitUseInterval ==
    /\ InvokerIdle
    /\ now = StartTime
    /\ mounted = TRUE
    /\ lastEvent = HostEvent("init")
    /\ options = Unused /\ other = Unused
    /\ useDebounce = Unused /\ useTimeout = Unused /\ useCounter = Unused /\ RestUnused
    /\ \E callback \in Callbacks, delay \in NullableDelays :
          /\ timers = UseIntervalEffect(<<>>, delay)
          /\ useInterval = [hook |-> "useInterval", callback |-> callback,
                            savedCallback |-> callback, delay |-> delay,
                            id |-> UseIntervalId(<<>>, delay),
                            armedAt |-> now, fired |-> 0,
                            last |-> NoInvocation, afterUnmount |-> 0]

\* A render with another callback or delay: the [callback] effect stores the
\* callback, the [delay] effect is cleaned up and runs again.
UseIntervalRender ==
    /\ mounted
    /\ \E callback \in Callbacks, delay \in NullableDelays :
          /\ <<callback, delay>> # <<useInterval.callback, useInterval.delay>>
          /\ IF delay = useInterval.delay
             THEN /\ timers' = timers
                  /\ useInterval' = [useInterval EXCEPT !.callback = callback,
                                                        !.savedCallback = callback]
             ELSE LET cleaned == IF useInterval.delay = << >> THEN timers
                                 ELSE UseIntervalCleanup(timers, useInterval.id)
                  IN  /\ timers' = UseIntervalEffect(cleaned, delay)
                      /\ useInterval' = [useInterval EXCEPT
                                           !.callback = callback,
                                           !.savedCallback = callback,
                                           !.delay = delay,
                                           !.id = UseIntervalId(cleaned, delay),
                                           !.armedAt = now, !.fired = 0]
    /\ lastEvent' = HostEvent("render")
    /\ UNCHANGED <<now, mounted, options, other, useDebounce, useTimeout, useCounter, rest>>
    /\ UNCHANGED invoker

\* The host runs the first due interval timer: savedCallback.current().
UseIntervalFire ==
    /\ DueTimers # {}
    /\ LET i == CHOOSE j \in DueTimers : \A k \in DueTimers : j <= k
       IN  timers' = HostIntervalRan(timers, i)
    /\ useInterval' = [useInterval EXCEPT
                         !.fired = @ + 1,
                         !.last = [at |-> now, callback |-> useInterval.savedCallback],
                         !.afterUnmount = IF mounted THEN @ ELSE @ + 1]
    /\ lastEvent' = HostEvent("timer")
    /\ UNCHANGED <<now, mounted, options, other, useDebounce, useTimeout, useCounter, rest>>
    /\ UNCHANGED invoker

UseIntervalUnmount ==
    /\ mounted
    /\ mounted' = FALSE
    /\ timers' = IF useInterval.delay = << >> THEN timers
                 ELSE UseIntervalCleanup(timers, useInterval.id)
    /\ lastEvent' = HostEvent("unmount")
    /\ UNCHANGED <<now, options, other, useDebounce, useTimeout, useInterval, useCounter, rest>>
    /\ UNCHANGED invoker

NextUseInterval == UseIntervalRender \/ UseIntervalFire \/ UseIntervalUnmount \/ Tick

SpecUseInterval == InitUseInterval /\ [][NextUseInterval]_vars

MaxCounterCalls == 4

\* options.min / options.max: a number, or omitted (-Infinity / Infinity).
CounterMins == {-Infinity, 0, 1}
CounterMaxs == {3, 4, Infinity}
CounterSteps == {-1, 1, 2}
CounterStarts == 0..4

Min(a, b) == IF a <= b THEN a ELSE b
Max(a, b) == IF a >= b THEN a ELSE b

\* useState(initialValue).  `calls` counts the operations made and `rawSet`
\* tells that setCount was called directly; both are history.
InitUseCounter ==
    /\ InvokerIdle
    /\ now = StartTime
    /\ timers = <<>>
    /\ mounted = TRUE
    /\ lastEvent = HostEvent("init")
    /\ options = Unused /\ other = Unused
    /\ useDebounce = Unused /\ useTimeout = Unused /\ useInterval = Unused /\ RestUnused
    /\ \E min \in CounterMins, max \in CounterMaxs, step \in CounterSteps :
       \E initialValue \in CounterStarts :
          /\ min <= initialValue /\ initialValue <= max
          /\ useCounter = [hook |-> "useCounter", initialValue |-> initialValue,
                           min |-> min, max |-> max, step |-> step,
                           count |-> initialValue, calls |-> 0, rawSet |-> FALSE]

\* The hook's state after one of its operations set the count.
UseCounterAfter(count, raw) ==
    [useCounter EXCEPT !.count = count, !.calls = @ + 1, !.rawSet = @ \/ raw]

\* setCount((c) => Math.min(c + step, max))
Increment ==
    /\ useCounter.calls < MaxCounterCalls
    /\ useCounter' = UseCounterAfter(
                         Min(useCounter.count + useCounter.step, useCounter.max), FALSE)
    /\ lastEvent' = HostEvent("increment")
    /\ UNCHANGED <<now, timers, mounted, options, other, useDebounce, useTimeout, useInterval, rest>>
    /\ UNCHANGED invoker

\* setCount((c) => Math.max(c - step, min))
Decrement ==
    /\ useCounter.calls < MaxCounterCalls
    /\ useCounter' = UseCounterAfter(
                         Max(useCounter.count - useCounter.step, useCounter.min), FALSE)
    /\ lastEvent' = HostEvent("decrement")
    /\ UNCHANGED <<now, timers, mounted, options, other, useDebounce, useTimeout, useInterval, rest>>
    /\ UNCHANGED invoker

\* setCount(initialValue)
Reset ==
    /\ useCounter.calls < MaxCounterCalls
    /\ useCounter' = UseCounterAfter(useCounter.initialValue, FALSE)
    /\ lastEvent' = HostEvent("reset")
    /\ UNCHANGED <<now, timers, mounted, options, other, useDebounce, useTimeout, useInterval, rest>>
    /\ UNCHANGED invoker

\* The state setter itself, which the hook also returns.
SetCount ==
    /\ useCounter.calls < MaxCounterCalls
    /\ \E value \in CounterStarts : useCounter' = UseCounterAfter(value, TRUE)
    /\ lastEvent' = HostEvent("setCount")
    /\ UNCHANGED <<now, timers, mounted, options, other, useDebounce, useTimeout, useInterval, rest>>
    /\ UNCHANGED invoker

NextUseCounter == Increment \/ Decrement \/ Reset \/ SetCount

SpecUseCounter == InitUseCounter /\ [][NextUseCounter]_vars

\* -------------------------------------------------------------------- C28
\* C28 (useCounter): starting inside [min, max], after any sequence of
\* increment, decrement and reset calls the count is inside [min, max].
C28_CountStaysInRange ==
    ~useCounter.rawSet =>
        /\ useCounter.min <= useCounter.count
        /\ useCounter.count <= useCounter.max

\* The count stays inside [min, max] when step is not negative.
C28_InRangeForPositiveStep ==
    (~useCounter.rawSet /\ useCounter.step >= 0) =>
        /\ useCounter.min <= useCounter.count
        /\ useCounter.count <= useCounter.max

\* increment sets the count to min(count + step, max), decrement to
\* max(count - step, min), reset to the initial value.
C28_IncrementDecrement ==
    [][/\ lastEvent'.op = "increment" =>
             useCounter'.count = Min(useCounter.count + useCounter.step, useCounter.max)
       /\ lastEvent'.op = "decrement" =>
             useCounter'.count = Max(useCounter.count - useCounter.step, useCounter.min)
       /\ lastEvent'.op = "reset" =>
             useCounter'.count = useCounter.initialValue]_vars

\* -------------------------------------------------------------------- C29
\* The calls that arrived less than delay after an earlier invocation.
CallsWithinWindow ==
    {k \in DOMAIN calls :
        \E i \in DOMAIN log :
            log[i].args < k /\ calls[k].at - log[i].at < config.delay}

\* C29 (throttle, trailing=false): the args of a call that arrives less than
\* delay after the last invocation are never passed to the action, neither
\* by a timer nor by a later flush().
C29_DroppedCallNeverDelivered ==
    (Throttle /\ config.impl = "createDelayedCallback" /\ ~config.trailing) =>
        \A k \in CallsWithinWindow : \A i \in DOMAIN log : log[i].args # k

\* Throttle with trailing=false schedules no timer at all.
C29_NoTimerScheduled ==
    (Throttle /\ config.impl = "createDelayedCallback" /\ ~config.trailing) =>
        timers = << >>

\* -------------------------------------------------------------------- C30
\* C30 (debounce, trailing=false): the trailing timer fires no invocation at
\* the end of the window; the action runs only on the leading edge, on
\* max-wait or on flush.
C30_NoTrailingInvocation ==
    (Debounce /\ ~config.trailing) =>
        \A i \in DOMAIN log : log[i].via \in {"leading", "maxWait", "flush"}

\* ====================================================================
\* Throttle with trailing = TRUE, with room for one more invoke call
\* ====================================================================
ThrottleTrailingConfigs == {c \in ThrottleConfigs : c.trailing}

InitThrottle ==
    /\ config \in ThrottleTrailingConfigs
    /\ now = StartTime
    /\ references = InitReferences
    /\ timers = <<>>
    /\ calls = <<>>
    /\ log = <<>>
    /\ control = [cancel |-> "never", flushed |-> FALSE]
    /\ lastEvent = [op |-> "init", threw |-> FALSE, reentered |-> FALSE]
    /\ mounted = TRUE
    /\ environment = [scripts |-> Returns, maxCalls |-> MaxCalls + 1]
    /\ HooksUnused

SpecThrottle == InitThrottle /\ [][Next]_vars

\* -------------------------------------------------------------------- C31
\* The invoke calls made after invocation i and less than delay after it.
WindowCalls(i) ==
    {k \in DOMAIN calls : log[i].args < k /\ calls[k].at < log[i].at + config.delay}

\* C31 (throttle trailing coalescing): with trailing = TRUE and no cancel or
\* flush, when several calls were made inside the window of the last
\* invocation and none after it, the args of the latest call are pending and
\* exactly one timer is live, due at lastInvokeAt + delay; and a trailing
\* invocation that delivers several calls of the window of the invocation
\* before it happens at that invocation's time + delay.
C31_ThrottleTrailingCoalescing ==
    (Throttle /\ config.trailing /\ NoCancelNoFlush /\ mounted /\ log # << >>) =>
        /\ LET last == Len(log)
           IN  (Cardinality(WindowCalls(last)) >= 2
                    /\ WindowCalls(last) = (log[last].args + 1)..LastCall) =>
                   /\ references.pendingArgumentsReference = LastCall
                   /\ Len(timers) = 1
                   /\ timers[1].due = log[last].at + config.delay
        /\ \A i \in 2..Len(log) :
              (log[i].via = "trailing"
                  /\ Cardinality({k \in WindowCalls(i - 1) : k <= log[i].args}) >= 2) =>
                  log[i].at = log[i - 1].at + config.delay

\* -------------------------------------------------------------------- C32
\* C32 (flush updates lastInvokeAt): after a flush() that found args
\* pending, lastInvokeAt is the time of the flush, in both modes.
C32_FlushUpdatesLastInvoke ==
    [][(lastEvent'.op = "flush" /\ references.pendingArgumentsReference # Null)
          => references'.lastInvokeTimeReference = now]_vars

\* The throttle half of C32: after such a flush in throttle mode
\* lastInvokeAt is the time of the flush, and an invoke call made less than
\* delay later (with no invocation in between) invokes nothing.
C32_ThrottleAfterFlush ==
    [][Throttle =>
          /\ (lastEvent'.op = "flush" /\ references.pendingArgumentsReference # Null)
                => references'.lastInvokeTimeReference = now
          /\ (lastEvent'.op = "invoke" /\ log # << >>
                /\ log[Len(log)].via = "flush"
                /\ now - log[Len(log)].at < config.delay) => log' = log]_vars

\* ====================================================================
\* Re-renders of the component that owns the invoker
\* ====================================================================
MaxRenders == MaxEnvCalls - 1

\* The configurations the hooks build: trailing = TRUE, maxWait absent or set.
RenderedConfigs ==
    {c \in Configs : c.trailing /\ c.maxWait \in {Infinity, MaxWaitShort}}

\* A re-render is committed first; its passive effects (cleanup of the
\* previous effects, then the new effects) run later, and a due timer or a
\* call of the caller may come in between.  `flushedCallback` and `storedAt`
\* are history: the callback of the latest render whose effects have run,
\* and when callbackReference last changed.
InitRender ==
    render = [hook |-> "render", callback |-> "first",
              callbackReference |-> "first",
              effectsPending |-> FALSE, renders |-> 0,
              flushedCallback |-> "first", storedAt |-> 0]

\* useDelayedReferences returns a new object on every render, so cancel
\* (deps [references]) is a new function and the effect of useCleanup (deps
\* [cancel]) is cleaned up on every re-render; the cancel of
\* useThrottleCallback has no deps and its cleanup runs on unmount only.
CleanupRunsOnRender == config.impl = "createDelayedCallback"

\* Mutant: the [function_] effect does not store the callback.
CallbackEffectOmitted(callback) == render.callbackReference

\* useEffect(() => { callbackReference.current = function_ }, [function_])
CallbackEffect(callback) == callback

\* references.callbackReference.current(...args): the function an invocation runs.
RunningCallback == render.callbackReference

RenderCommit ==
    /\ mounted
    /\ ~render.effectsPending
    /\ render.renders < MaxRenders
    /\ \E callback \in Callbacks :
          render' = [render EXCEPT !.callback = callback, !.effectsPending = TRUE,
                                   !.renders = @ + 1]
    /\ lastEvent' = [op |-> "render", threw |-> FALSE, reentered |-> FALSE]
    /\ UNCHANGED <<config, now, references, timers, calls, log, control, mounted,
                   environment, options, other, useDebounce, useTimeout, useInterval,
                   useCounter, useRequest, useAsync, useStateWithHistory>>

RunEffects ==
    /\ mounted
    /\ render.effectsPending
    /\ LET stored == CallbackEffect(render.callback)
       IN  render' = [render EXCEPT
                        !.effectsPending = FALSE,
                        !.callbackReference = stored,
                        !.flushedCallback = render.callback,
                        !.storedAt = IF stored # render.callbackReference THEN now ELSE @]
    /\ IF CleanupRunsOnRender
       THEN Commit(Cancel(World), "effects")
       ELSE /\ lastEvent' = [op |-> "effects", threw |-> FALSE, reentered |-> FALSE]
            /\ UNCHANGED <<references, timers, calls, log, control>>
    /\ UNCHANGED <<config, now, mounted, environment, options, other, useDebounce,
                   useTimeout, useInterval, useCounter, useRequest, useAsync,
                   useStateWithHistory>>

InitRendered ==
    /\ config \in RenderedConfigs
    /\ now = StartTime
    /\ references = InitReferences
    /\ timers = <<>>
    /\ calls = <<>>
    /\ log = <<>>
    /\ control = [cancel |-> "never", flushed |-> FALSE]
    /\ lastEvent = [op |-> "init", threw |-> FALSE, reentered |-> FALSE]
    /\ mounted = TRUE
    /\ environment = [scripts |-> Returns, maxCalls |-> MaxEnvCalls - 1]
    /\ options = Unused /\ other = Unused
    /\ useDebounce = Unused /\ useTimeout = Unused /\ useInterval = Unused
    /\ useCounter = Unused
    /\ useRequest = Unused /\ useAsync = Unused /\ useStateWithHistory = Unused
    /\ InitRender

NextRendered == Next \/ RenderCommit \/ RunEffects

SpecRendered == InitRendered /\ [][NextRendered]_vars

\* -------------------------------------------------------------------- C33
\* C33 (pending work survives re-renders): a re-render that does not unmount
\* the component, through its commit and its effects, leaves pendingArgs and
\* every live timer of the invoker untouched.
C33_PendingSurvivesRerender ==
    [][lastEvent'.op \in {"render", "effects"} =>
          /\ references'.pendingArgumentsReference = references.pendingArgumentsReference
          /\ timers' = timers]_vars

\* The same for the invoker of useThrottleCallback alone, whose cancel is one
\* function for the life of the component.
C33_ThrottleHookSurvives ==
    [][(config.impl = "useThrottleCallback" /\ lastEvent'.op \in {"render", "effects"}) =>
          /\ references' = references
          /\ timers' = timers]_vars

\* -------------------------------------------------------------------- C34
\* A step in which a trailing timer, a max-wait timer or flush() invoked the action.
DeferredInvocation ==
    /\ Len(log') > Len(log)
    /\ log'[Len(log')].via \in {"trailing", "maxWait", "flush"}

\* C34 as stated (latest action): the function such an invocation runs is
\* the callback passed at the most recent committed render.
C34_RunsCommittedCallback ==
    [][DeferredInvocation => RunningCallback = render.callback]_vars

\* C34 (latest action): when a trailing timer, a max-wait timer or flush()
\* invokes the action, the function that runs is the callback passed at the
\* most recent render whose effects have run, whichever callback was current
\* when the invoke call was made.
C34_RunsFlushedCallback ==
    [][DeferredInvocation => RunningCallback = render.flushedCallback]_vars

\* The only call was made under the first callback, a re-render then stored
\* the second one, and the trailing timer has since run it.
C34_Witness ==
    /\ Len(calls) = 1 /\ Len(log) = 1
    /\ log[1].via = "trailing"
    /\ render.callbackReference = "second"
    /\ calls[1].at < render.storedAt
    /\ render.storedAt < log[1].at

\* ============================================================= useRequest
\* executeWithRetry for one cache key and one parameter tuple.  The promise
\* of a service call settles when the environment decides; the code after
\* an await runs in the step in which the awaited promise settles.
MaxRuns == 2
MaxRetryCount == 2

\* requestDedup.get / requestCache.get apply to non-refresh runs with a cacheKey.
ShouldCache(refresh) == useRequest.cacheKey /\ ~refresh

\* The runs that have not settled yet.
RunsInFlight == {r \in DOMAIN useRequest.runs : useRequest.runs[r].pc # "done"}

\* The service promises that have not settled yet.
PendingPromises ==
    {p \in DOMAIN useRequest.promises : useRequest.promises[p].state = "pending"}

\* A run record.  `calls`, `rejections`, `onSuccess`, `onError`, `overlaps`
\* and `afterResolve` are history: the service calls of the run and how many
\* of them rejected, the callbacks fired, the run that was in flight when
\* this one started, and whether the service was called again after an
\* attempt whose promise resolved.
NewRun(refresh, pc, promise, made, outcome) ==
    [refresh |-> refresh, pc |-> pc, promise |-> promise, attempt |-> 0,
     calls |-> made, rejections |-> 0, onSuccess |-> 0, onError |-> 0,
     outcome |-> outcome,
     overlaps |-> IF RunsInFlight = {} THEN 0
                  ELSE CHOOSE r \in RunsInFlight : \A q \in RunsInFlight : r <= q,
     afterResolve |-> FALSE]

InitUseRequest ==
    /\ InvokerIdle
    /\ now = StartTime
    /\ timers = <<>>
    /\ mounted = TRUE
    /\ lastEvent = HostEvent("init")
    /\ options = Unused /\ other = Unused
    /\ useDebounce = Unused /\ useTimeout = Unused /\ useInterval = Unused
    /\ useCounter = Unused
    /\ render = Unused /\ useAsync = Unused /\ useStateWithHistory = Unused
    /\ \E cacheKey \in BOOLEAN, count \in 0..MaxRetryCount :
          useRequest = [hook |-> "useRequest", cacheKey |-> cacheKey,
                        retryCount |-> count, dedup |-> Null, cached |-> FALSE,
                        promises |-> <<>>, runs |-> <<>>, threw |-> FALSE]

\* executeWithRetry up to its first await: fresh cached data is returned;
\* else the promise in requestDedup is returned; else attempt 0 calls the
\* service and records its promise in requestDedup.
StartOfRun(refresh) ==
    LET p == Len(useRequest.promises) + 1
        r == Len(useRequest.runs) + 1
        d == useRequest.dedup
    IN  IF ShouldCache(refresh) /\ useRequest.cached
        THEN [useRequest EXCEPT
                !.runs = Append(@, NewRun(refresh, "done", Null, 0, "success"))]
        ELSE IF ShouldCache(refresh) /\ d # Null
        THEN [useRequest EXCEPT
                !.runs = Append(@,
                    IF useRequest.promises[d].state = "pending"
                    THEN NewRun(refresh, "awaitDedup", d, 0, "none")
                    ELSE NewRun(refresh, "done", d, 0,
                                IF useRequest.promises[d].state = "resolved"
                                THEN "success" ELSE "error"))]
        ELSE [useRequest EXCEPT
                !.promises = Append(@, [state |-> "pending", run |-> r]),
                !.dedup = IF ShouldCache(refresh) THEN p ELSE @,
                !.runs = Append(@, NewRun(refresh, "awaitService", p, 1, "none"))]

\* run / runAsync (refresh = FALSE) or refresh / refreshAsync (refresh = TRUE).
RequestRun ==
    /\ Len(useRequest.runs) < MaxRuns
    /\ \E refresh \in BOOLEAN : useRequest' = StartOfRun(refresh)
    /\ lastEvent' = HostEvent("run")
    /\ UNCHANGED <<now, timers, mounted, options, other, useDebounce, useTimeout,
                   useInterval, useCounter, render, useAsync, useStateWithHistory>>
    /\ UNCHANGED invoker

\* The run that called the service, after `await promise`: on a result the
\* cache is set and onSuccess is called (it may throw, which lands in the
\* catch block like a rejection); in the catch block a further attempt is
\* due after a sleep while attempt < maxRetries, else onError is called and
\* the run fails; the finally block deletes the requestDedup entry when the
\* attempt ends, which for an attempt that is retried is after the sleep.
AfterAwait(run, result, onSuccessThrows) ==
    LET caches == ShouldCache(run.refresh)
        failed == result = "rejected" \/ onSuccessThrows
        retried == failed /\ run.attempt < useRequest.retryCount
        counted == [run EXCEPT
                      !.rejections = IF result = "rejected" THEN @ + 1 ELSE @,
                      !.onSuccess = IF result = "resolved" THEN @ + 1 ELSE @]
    IN  [run |-> IF retried THEN [counted EXCEPT !.pc = "sleep"]
                 ELSE IF failed
                 THEN [counted EXCEPT !.pc = "done", !.outcome = "error",
                                      !.onError = @ + 1]
                 ELSE [counted EXCEPT !.pc = "done", !.outcome = "success"],
         cached |-> useRequest.cached \/ (caches /\ result = "resolved"),
         dedup |-> IF caches /\ ~retried THEN Null ELSE useRequest.dedup]

\* A run that was handed the promise of requestDedup settles as that promise does.
AfterDedupAwait(run, result) ==
    [run EXCEPT !.pc = "done",
                !.outcome = IF result = "resolved" THEN "success" ELSE "error"]

\* The promise of a service call settles; the runs awaiting it continue.
ServiceSettles ==
    /\ \E p \in PendingPromises, result \in {"resolved", "rejected"},
          onSuccessThrows \in BOOLEAN :
          /\ onSuccessThrows => result = "resolved"
          /\ LET owner == useRequest.promises[p].run
                 after == AfterAwait(useRequest.runs[owner], result, onSuccessThrows)
             IN  useRequest' =
                    [useRequest EXCEPT
                       !.promises[p].state = result,
                       !.cached = after.cached,
                       !.dedup = after.dedup,
                       !.threw = @ \/ onSuccessThrows,
                       !.runs = [r \in DOMAIN useRequest.runs |->
                                   IF r = owner THEN after.run
                                   ELSE IF /\ useRequest.runs[r].pc = "awaitDedup"
                                           /\ useRequest.runs[r].promise = p
                                        THEN AfterDedupAwait(useRequest.runs[r], result)
                                        ELSE useRequest.runs[r]]]
    /\ lastEvent' = HostEvent("settle")
    /\ UNCHANGED <<now, timers, mounted, options, other, useDebounce, useTimeout,
                   useInterval, useCounter, render, useAsync, useStateWithHistory>>
    /\ UNCHANGED invoker

\* The retry sleep of a run ends: `return attemptRequest(attempt + 1)` calls
\* the service and records the new promise in requestDedup, and then the
\* finally block of the attempt that failed deletes the requestDedup entry.
SleepEnds ==
    /\ \E r \in DOMAIN useRequest.runs :
          /\ useRequest.runs[r].pc = "sleep"
          /\ LET run == useRequest.runs[r]
                 p == Len(useRequest.promises) + 1
                 caches == ShouldCache(run.refresh)
             IN  useRequest' =
                    [useRequest EXCEPT
                       !.promises = Append(@, [state |-> "pending", run |-> r]),
                       !.dedup = IF caches THEN Null ELSE @,
                       !.runs[r] = [run EXCEPT
                                      !.pc = "awaitService", !.promise = p,
                                      !.attempt = @ + 1, !.calls = @ + 1,
                                      !.afterResolve =
                                          @ \/ useRequest.promises[run.promise].state
                                                  = "resolved"]]
    /\ lastEvent' = HostEvent("retry")
    /\ UNCHANGED <<now, timers, mounted, options, other, useDebounce, useTimeout,
                   useInterval, useCounter, render, useAsync, useStateWithHistory>>
    /\ UNCHANGED invoker

NextUseRequest == RequestRun \/ ServiceSettles \/ SleepEnds

SpecUseRequest == InitUseRequest /\ [][NextUseRequest]_vars

\* -------------------------------------------------------------------- C35
\* Only non-refresh runs with a cacheKey were made and no callback threw.
DedupApplies ==
    /\ useRequest.cacheKey
    /\ ~useRequest.threw
    /\ \A r \in DOMAIN useRequest.runs : ~useRequest.runs[r].refresh

\* A run that started while another was in flight made no service call of
\* its own and, once both have settled, has the outcome of that other run.
JoinsRunInFlight(r) ==
    LET run == useRequest.runs[r]
    IN  run.overlaps # 0 =>
           /\ run.calls = 0
           /\ (run.pc = "done" /\ useRequest.runs[run.overlaps].pc = "done") =>
                 run.outcome = useRequest.runs[run.overlaps].outcome

\* C35 (useRequest deduplication): while a non-refresh request is in flight,
\* through all of its attempts and retry sleeps, a second non-refresh request
\* with the same key does not call the service and settles with the outcome
\* of the first; at most one service call per key is in flight at any time.
C35_RequestDeduplication ==
    DedupApplies =>
        /\ Cardinality(PendingPromises) <= 1
        /\ \A r \in DOMAIN useRequest.runs : JoinsRunInFlight(r)

\* The same without retries (retry.count = 0).
C35_DedupWithoutRetry ==
    (DedupApplies /\ useRequest.retryCount = 0) =>
        /\ Cardinality(PendingPromises) <= 1
        /\ \A r \in DOMAIN useRequest.runs : JoinsRunInFlight(r)

\* -------------------------------------------------------------------- C36
\* The retry bound for run r, which made service calls of its own.
RetryBound(r) ==
    LET run == useRequest.runs[r]
        n == useRequest.retryCount
    IN  /\ run.calls <= n + 1
        /\ run.calls = run.attempt + 1
        /\ ~run.afterResolve
        /\ run.onSuccess <= 1
        /\ run.onError <= 1
        /\ run.onError = 1 => run.rejections = n + 1
        /\ run.pc = "done" =>
              /\ run.outcome \in {"success", "error"}
              /\ run.outcome = "error" <=> run.onError = 1
              /\ run.outcome = "success" <=> run.onSuccess = 1
        /\ run.pc = "awaitService" => run.promise \in PendingPromises
        /\ run.pc \in {"awaitService", "sleep", "done"}

\* C36 (useRequest retry bound): a run with retry.count = n calls the service
\* at most n + 1 times, and again only after the attempt before rejected;
\* onSuccess fires at most once; a run that fails fires onError exactly once,
\* after attempt n + 1 rejected; and a run that has not settled is waiting
\* for a service promise that is still pending or for its retry sleep.
C36_RetryBound ==
    \A r \in DOMAIN useRequest.runs :
        useRequest.runs[r].calls >= 1 => RetryBound(r)

\* The same while no callback has thrown.
C36_RetryBoundNoThrow ==
    ~useRequest.threw =>
        \A r \in DOMAIN useRequest.runs :
            useRequest.runs[r].calls >= 1 => RetryBound(r)

\* --------------------------------------------------------------- useAsync
\* A value or an error is named by the number of the call that produced it.
MaxAsyncCalls == 3
AsyncLoading == [loading |-> TRUE, error |-> Null, value |-> Null]

\* useState's initial state; the effect of the first render has not run yet.
InitUseAsync ==
    /\ InvokerIdle
    /\ now = StartTime
    /\ timers = <<>>
    /\ mounted = TRUE
    /\ lastEvent = HostEvent("init")
    /\ options = Unused /\ other = Unused
    /\ useDebounce = Unused /\ useTimeout = Unused /\ useInterval = Unused
    /\ useCounter = Unused
    /\ render = Unused /\ useRequest = Unused /\ useStateWithHistory = Unused
    /\ useAsync = [hook |-> "useAsync", state |-> AsyncLoading, calls |-> <<>>,
                   effectsPending |-> TRUE]

\* Mutant: the cleanup of the effect leaves isCancelled alone.
UseAsyncCleanupOmitted(asyncCalls) == asyncCalls

\* The cleanup of the effect: isCancelled = true in the closure of the last
\* effect run, when there is one.
UseAsyncCleanup(asyncCalls) ==
    IF asyncCalls = <<>> THEN asyncCalls
    ELSE [asyncCalls EXCEPT ![Len(asyncCalls)].isCancelled = TRUE]

\* setState; React drops the update of a component that is unmounted.
UseAsyncSetState(state) == IF mounted THEN state ELSE useAsync.state

\* The state a settled call sets.
UseAsyncSettled(c, result) ==
    IF result = "resolved"
    THEN [loading |-> FALSE, error |-> Null, value |-> c]
    ELSE [loading |-> FALSE, error |-> c, value |-> Null]

\* A render with new deps commits (its effects run later); a render with the
\* same deps changes nothing.
UseAsyncRender ==
    /\ useAsync.hook = "useAsync"
    /\ mounted
    /\ ~useAsync.effectsPending
    /\ Len(useAsync.calls) < MaxAsyncCalls
    /\ \E depsChanged \in BOOLEAN :
          useAsync' = [useAsync EXCEPT !.effectsPending = depsChanged]
    /\ lastEvent' = HostEvent("render")
    /\ UNCHANGED <<now, timers, mounted, options, other, useDebounce, useTimeout,
                   useInterval, useCounter, render, useRequest,
                   useStateWithHistory>>
    /\ UNCHANGED invoker

\* The effects of the last commit run: the cleanup of the previous effect,
\* then, while mounted, the effect: setState(loading) and asyncFunction().
UseAsyncEffects ==
    /\ useAsync.hook = "useAsync"
    /\ useAsync.effectsPending
    /\ useAsync' =
          IF mounted
          THEN [useAsync EXCEPT
                  !.effectsPending = FALSE,
                  !.state = AsyncLoading,
                  !.calls = Append(UseAsyncCleanup(@),
                                   [state |-> "pending", isCancelled |-> FALSE,
                                    seen |-> 0])]
          ELSE [useAsync EXCEPT
                  !.effectsPending = FALSE,
                  !.calls = UseAsyncCleanup(@)]
    /\ lastEvent' = HostEvent("effects")
    /\ UNCHANGED <<now, timers, mounted, options, other, useDebounce, useTimeout,
                   useInterval, useCounter, render, useRequest,
                   useStateWithHistory>>
    /\ UNCHANGED invoker

\* The promise of call c settles: unless isCancelled, the state is set.
\* seen records how many calls had been started by then.
UseAsyncSettle ==
    /\ useAsync.hook = "useAsync"
    /\ \E c \in DOMAIN useAsync.calls, result \in {"resolved", "rejected"} :
          /\ useAsync.calls[c].state = "pending"
          /\ useAsync' = [useAsync EXCEPT
                !.calls[c].state = result,
                !.calls[c].seen = Len(useAsync.calls),
                !.state = IF useAsync.calls[c].isCancelled THEN @
                          ELSE UseAsyncSetState(UseAsyncSettled(c, result))]
    /\ lastEvent' = HostEvent("settle")
    /\ UNCHANGED <<now, timers, mounted, options, other, useDebounce, useTimeout,
                   useInterval, useCounter, render, useRequest,
                   useStateWithHistory>>
    /\ UNCHANGED invoker

\* The component unmounts; the cleanup of its effect runs later.
UseAsyncUnmount ==
    /\ useAsync.hook = "useAsync"
    /\ mounted
    /\ ~useAsync.effectsPending
    /\ mounted' = FALSE
    /\ useAsync' = [useAsync EXCEPT !.effectsPending = TRUE]
    /\ lastEvent' = HostEvent("unmount")
    /\ UNCHANGED <<now, timers, options, other, useDebounce, useTimeout,
                   useInterval, useCounter, render, useRequest,
                   useStateWithHistory>>
    /\ UNCHANGED invoker

NextUseAsync ==
    \/ UseAsyncRender
    \/ UseAsyncEffects
    \/ UseAsyncSettle
    \/ UseAsyncUnmount

SpecUseAsync == InitUseAsync /\ [][NextUseAsync]_vars

\* -------------------------------------------------------------------- C37
\* Call c settles in this step.
Settles(c) ==
    /\ c \in DOMAIN useAsync.calls
    /\ useAsync.calls[c].state = "pending"
    /\ useAsync'.calls[c].state # "pending"

\* Every call has settled and no effect is due.
AsyncQuiet ==
    /\ useAsync.calls # <<>>
    /\ ~useAsync.effectsPending
    /\ \A c \in DOMAIN useAsync.calls : useAsync.calls[c].state # "pending"

\* The state shows the outcome of the most recent call.
ShowsLastCall ==
    LET c == Len(useAsync.calls)
    IN  useAsync.state = UseAsyncSettled(c, useAsync.calls[c].state)

\* C37 (useAsync stale results), as stated: once the deps have changed or the
\* component has unmounted while call c is pending, the settling of call c
\* never changes the returned state; and when every promise has settled, the
\* state of a mounted component shows the outcome of the most recent call.
C37_StaleResultDropped ==
    /\ [][\A c \in DOMAIN useAsync.calls :
            (Settles(c) /\ (c < Len(useAsync.calls) \/ useAsync.effectsPending))
                => useAsync'.state = useAsync.state]_vars
    /\ [](mounted /\ AsyncQuiet => ShowsLastCall)

\* C37, amended: once the effect of the render with the new deps has run (a
\* later call has been started) or the component has unmounted, the settling
\* of call c never changes the returned state; and when every promise has
\* settled, the state of a mounted component shows the outcome of the most
\* recent call.
C37_SupersededResultDropped ==
    /\ [][\A c \in DOMAIN useAsync.calls :
            (Settles(c) /\ (c < Len(useAsync.calls) \/ ~mounted))
                => useAsync'.state = useAsync.state]_vars
    /\ [](mounted /\ AsyncQuiet => ShowsLastCall)

\* Call 1 resolved after call 2 had been started, call 2 rejected, and the
\* state shows the error of call 2.
C37_Witness ==
    /\ useAsync.hook = "useAsync"
    /\ Len(useAsync.calls) = 2
    /\ useAsync.calls[1].state = "resolved"
    /\ useAsync.calls[1].seen = 2
    /\ useAsync.calls[2].state = "rejected"
    /\ mounted /\ AsyncQuiet
    /\ useAsync.state = UseAsyncSettled(2, "rejected")

\* ---------------------------------------------------- useStateWithHistory
\* history and pointer are the state of the last render; the closures of
\* set, undo and redo read them. Calls made before the next render queue
\* their updates, and the render applies the queues. pointer counts from 0,
\* as in the source.
MaxHistoryCalls == 4
MaxCapacity == 3
HistoryValues == {0, 1}
InitialValue == 0

InitUseStateWithHistory ==
    /\ InvokerIdle
    /\ now = StartTime
    /\ timers = <<>>
    /\ mounted = TRUE
    /\ lastEvent = HostEvent("init")
    /\ options = Unused /\ other = Unused
    /\ useDebounce = Unused /\ useTimeout = Unused /\ useInterval = Unused
    /\ useCounter = Unused
    /\ render = Unused /\ useRequest = Unused /\ useAsync = Unused
    /\ \E capacity \in 1..MaxCapacity, allowDuplicates \in BOOLEAN :
          useStateWithHistory =
              [hook |-> "useStateWithHistory", capacity |-> capacity,
               allowDuplicates |-> allowDuplicates,
               history |-> <<InitialValue>>, pointer |-> 0,
               historyQueue |-> <<>>, pointerQueue |-> <<>>,
               batch |-> 0, lastCall |-> "none", rendered |-> "none",
               batched |-> FALSE, made |-> 0]

\* Array.prototype.slice(0, end).
Slice(array, end) ==
    LET to == IF end < 0 THEN Max(Len(array) + end, 0) ELSE Min(end, Len(array))
    IN  SubSeq(array, 1, to)

\* history[pointer] ?? initialValue
HistoryCurrentValue ==
    LET h == useStateWithHistory.history
        p == useStateWithHistory.pointer
    IN  IF p >= 0 /\ p < Len(h) THEN h[p + 1] ELSE InitialValue

\* The updater that set passes to setHistory, with the pointer of set's
\* closure: the new history and the argument of its setPointer call.
SetHistoryUpdater(previousHistory, pointer, resolvedValue) ==
    LET newHistory == Append(Slice(previousHistory, pointer + 1), resolvedValue)
    IN  IF Len(newHistory) > useStateWithHistory.capacity
        THEN [history |-> Tail(newHistory),
              pointer |-> useStateWithHistory.capacity - 1]
        ELSE [history |-> newHistory, pointer |-> Len(newHistory) - 1]

\* The record of one more call of an action.
HistoryCalled(op, historyQueue, pointerQueue) ==
    [useStateWithHistory EXCEPT
        !.historyQueue = historyQueue,
        !.pointerQueue = pointerQueue,
        !.batch = @ + 1,
        !.made = @ + 1,
        !.lastCall = op]

\* No update of the component is pending.
HistoryIdle ==
    /\ useStateWithHistory.historyQueue = <<>>
    /\ useStateWithHistory.pointerQueue = <<>>

\* set(value). A call that is dropped as a duplicate queues nothing. React
\* runs the updater at once when no update is pending (then setPointer is
\* queued in place), and otherwise may run it during the next render (then
\* its setPointer is applied after the queued pointer updates).
HistorySet ==
    /\ useStateWithHistory.hook = "useStateWithHistory"
    /\ useStateWithHistory.made < MaxHistoryCalls
    /\ \E resolvedValue \in HistoryValues, eager \in BOOLEAN :
          LET s == useStateWithHistory
              drop == ~s.allowDuplicates /\ resolvedValue = HistoryCurrentValue
              now1 == SetHistoryUpdater(s.history, s.pointer, resolvedValue)
          IN  /\ eager => HistoryIdle /\ ~drop
              /\ useStateWithHistory' =
                    IF drop
                    THEN HistoryCalled("setDuplicate", s.historyQueue,
                                       s.pointerQueue)
                    ELSE IF eager
                    THEN HistoryCalled("set",
                            Append(s.historyQueue,
                                   [kind |-> "value", history |-> now1.history,
                                    pointer |-> 0, value |-> 0]),
                            Append(s.pointerQueue,
                                   [kind |-> "value", value |-> now1.pointer]))
                    ELSE HistoryCalled("set",
                            Append(s.historyQueue,
                                   [kind |-> "updater", history |-> <<>>,
                                    pointer |-> s.pointer,
                                    value |-> resolvedValue]),
                            s.pointerQueue)
    /\ lastEvent' = HostEvent("set")
    /\ UNCHANGED <<now, timers, mounted, options, other, useDebounce, useTimeout,
                   useInterval, useCounter, render, useRequest, useAsync>>
    /\ UNCHANGED invoker

\* undo(): the guard reads the pointer of the closure, the update is
\* functional.
HistoryUndo ==
    /\ useStateWithHistory.hook = "useStateWithHistory"
    /\ useStateWithHistory.made < MaxHistoryCalls
    /\ useStateWithHistory' =
          LET s == useStateWithHistory
          IN  HistoryCalled("undo", s.historyQueue,
                  IF s.pointer > 0
                  THEN Append(s.pointerQueue, [kind |-> "minus", value |-> 1])
                  ELSE s.pointerQueue)
    /\ lastEvent' = HostEvent("undo")
    /\ UNCHANGED <<now, timers, mounted, options, other, useDebounce, useTimeout,
                   useInterval, useCounter, render, useRequest, useAsync>>
    /\ UNCHANGED invoker

\* redo(): the guard reads pointer and history.length of the closure.
HistoryRedo ==
    /\ useStateWithHistory.hook = "useStateWithHistory"
    /\ useStateWithHistory.made < MaxHistoryCalls
    /\ useStateWithHistory' =
          LET s == useStateWithHistory
          IN  HistoryCalled("redo", s.historyQueue,
                  IF s.pointer < Len(s.history) - 1
                  THEN Append(s.pointerQueue, [kind |-> "plus", value |-> 1])
                  ELSE s.pointerQueue)
    /\ lastEvent' = HostEvent("redo")
    /\ UNCHANGED <<now, timers, mounted, options, other, useDebounce, useTimeout,
                   useInterval, useCounter, render, useRequest, useAsync>>
    /\ UNCHANGED invoker

\* clear(): setHistory([initialValue]); setPointer(0).
HistoryClear ==
    /\ useStateWithHistory.hook = "useStateWithHistory"
    /\ useStateWithHistory.made < MaxHistoryCalls
    /\ useStateWithHistory' =
          LET s == useStateWithHistory
          IN  HistoryCalled("clear",
                  Append(s.historyQueue,
                         [kind |-> "value", history |-> <<InitialValue>>,
                          pointer |-> 0, value |-> 0]),
                  Append(s.pointerQueue, [kind |-> "value", value |-> 0]))
    /\ lastEvent' = HostEvent("clear")
    /\ UNCHANGED <<now, timers, mounted, options, other, useDebounce, useTimeout,
                   useInterval, useCounter, render, useRequest, useAsync>>
    /\ UNCHANGED invoker

\* reset(): setHistory([initialValue]); setPointer(0).
HistoryReset ==
    /\ useStateWithHistory.hook = "useStateWithHistory"
    /\ useStateWithHistory.made < MaxHistoryCalls
    /\ useStateWithHistory' =
          LET s == useStateWithHistory
          IN  HistoryCalled("reset",
                  Append(s.historyQueue,
                         [kind |-> "value", history |-> <<InitialValue>>,
                          pointer |-> 0, value |-> 0]),
                  Append(s.pointerQueue, [kind |-> "value", value |-> 0]))
    /\ lastEvent' = HostEvent("reset")
    /\ UNCHANGED <<now, timers, mounted, options, other, useDebounce, useTimeout,
                   useInterval, useCounter, render, useRequest, useAsync>>
    /\ UNCHANGED invoker

\* The queue of setHistory applied to a history: the new history, and the
\* arguments of the setPointer calls that updaters made during the render.
RECURSIVE ApplyHistoryQueue(_, _, _)
ApplyHistoryQueue(queue, history, pointers) ==
    IF queue = <<>> THEN [history |-> history, pointers |-> pointers]
    ELSE LET update == Head(queue)
             ran == SetHistoryUpdater(history, update.pointer, update.value)
         IN  IF update.kind = "value"
             THEN ApplyHistoryQueue(Tail(queue), update.history, pointers)
             ELSE ApplyHistoryQueue(Tail(queue), ran.history,
                                    Append(pointers, ran.pointer))

\* The queue of setPointer applied to a pointer.
RECURSIVE ApplyPointerQueue(_, _)
ApplyPointerQueue(queue, pointer) ==
    IF queue = <<>> THEN pointer
    ELSE LET update == Head(queue)
         IN  ApplyPointerQueue(Tail(queue),
                 IF update.kind = "value" THEN update.value
                 ELSE IF update.kind = "minus" THEN pointer - 1
                 ELSE pointer + 1)

\* The next render: both queues are applied; a setPointer made by an updater
\* during the render is applied after the queued pointer updates.
HistoryRender ==
    /\ useStateWithHistory.hook = "useStateWithHistory"
    /\ useStateWithHistory.batch > 0
    /\ useStateWithHistory' =
          LET s == useStateWithHistory
              applied == ApplyHistoryQueue(s.historyQueue, s.history, <<>>)
              queued == ApplyPointerQueue(s.pointerQueue, s.pointer)
          IN  [s EXCEPT
                 !.history = applied.history,
                 !.pointer = IF applied.pointers = <<>> THEN queued
                             ELSE applied.pointers[Len(applied.pointers)],
                 !.historyQueue = <<>>,
                 !.pointerQueue = <<>>,
                 !.batch = 0,
                 !.lastCall = "none",
                 !.rendered = s.lastCall,
                 !.batched = @ \/ s.batch > 1]
    /\ lastEvent' = HostEvent("render")
    /\ UNCHANGED <<now, timers, mounted, options, other, useDebounce, useTimeout,
                   useInterval, useCounter, render, useRequest, useAsync>>
    /\ UNCHANGED invoker

NextUseStateWithHistory ==
    \/ HistorySet
    \/ HistoryUndo
    \/ HistoryRedo
    \/ HistoryClear
    \/ HistoryReset
    \/ HistoryRender

SpecUseStateWithHistory ==
    InitUseStateWithHistory /\ [][NextUseStateWithHistory]_vars

\* -------------------------------------------------------------------- C38
HistoryInvariant ==
    LET s == useStateWithHistory
    IN  /\ 0 <= s.pointer
        /\ s.pointer < Len(s.history)
        /\ Len(s.history) <= s.capacity
        /\ HistoryCurrentValue = s.history[s.pointer + 1]
        /\ s.rendered = "set" => ~(s.pointer < Len(s.history) - 1)

\* C38 (useStateWithHistory invariant): with capacity >= 1, after any
\* sequence of set, undo, redo, clear and reset calls, several calls between
\* two renders included, every render has 0 <= pointer < history.length <=
\* capacity, returns history[pointer], and after a set has canRedo = false.
C38_HistoryInvariant ==
    useStateWithHistory.hook = "useStateWithHistory" => HistoryInvariant

\* The same while every render followed one call.
C38_OneCallPerRender ==
    (/\ useStateWithHistory.hook = "useStateWithHistory"
     /\ ~useStateWithHistory.batched) => HistoryInvariant

====
